---- MODULE Spec2Model ----
(***************************************************************************)
(* Model of tg-users-database: the Store (pkg/db/db.go), and the           *)
(* Subscription Lifecycle Engine (pkg/scheduler/checkSubscriptions.go).    *)
(* Every SQL statement is one atomic step; a Store operation is the        *)
(* sequence of its statements, bracketed by db.mu where the code locks.    *)
(***************************************************************************)
EXTENDS Integers, Sequences, FiniteSets, TLC

VARIABLES
  users,          \* table users: username -> [subscription_id, traffic, chat_id]
  subscriptions,  \* table subscriptions: id -> [subscription_status, duration, start_subscription, end_subscription]
  seq,            \* AUTOINCREMENT counter of subscriptions.id
  mu,             \* Database.mu: the goroutine holding it, or NoProc
  pc,             \* per goroutine: the statement of the Store operation it is at
  arg,            \* per goroutine: arguments and locals of the running Store operation
  ret,            \* per goroutine: result of its last completed Store operation
  clock,          \* wall clock, in seconds
  epc,            \* position of checkAndUpdateSubscriptions
  usernames,      \* its local: the AllUsername snapshot
  idx,            \* its local: the range index
  user,           \* its local: the fetched *User (NilUser when nil)
  runlog,         \* observation of the current engine run: what it evaluated and persisted
  checkpoint,     \* the file docs/last_reset_time.txt
  rpc,            \* position of checkAndResetTraffic
  rnow,           \* its local now
  rusernames,     \* local of resetAllUserTraffic: the AllUsername snapshot
  ridx,           \* local of resetAllUserTraffic: the range index
  resetrun,       \* observation of the current invocation of checkAndResetTraffic
  resetcount,     \* observation: per calendar month, the resetting invocations and the resets of each user
  cron,           \* Scheduler.cron: whether it runs, and its entries (cadence, job)
  tasks,          \* Scheduler.tasks, as the set of its elements (the slice is appended to, never read)
  http            \* per client: the request gin is serving for it, and the response so far

vars == <<users, subscriptions, seq, mu, pc, arg, ret, clock, epc, usernames, idx, user, runlog,
          checkpoint, rpc, rnow, rusernames, ridx, resetrun, resetcount, cron, tasks, http>>
storeVars == <<users, subscriptions, seq>>
engineVars == <<epc, usernames, idx, user, runlog>>
resetVars == <<checkpoint, rpc, rnow, rusernames, ridx, resetrun, resetcount>>
serverVars == <<cron, tasks, http>>

----------------------------------------------------------------------------
(* Bounds *)

MaxID == 2       \* subscriptions ever inserted
MaxClock == 3    \* last second the clock reaches

Clients == {"c1", "c2"}
Engine == "engine"
Resetter == "resetter"
Procs == Clients \cup {Engine, Resetter}
NoProc == "none"

Usernames == {"a", "b"}
BlankUsernames == {"", " "}
ChatIDs == {1, 2}
Traffics == {0, 1}
Statuses == {"active", "inactive"}

----------------------------------------------------------------------------
(* time.Time: an instant (sec, nsec) and a zone offset; nsec is 0 or 1     *)
(* (whole second or not), off is the zone's offset in seconds.             *)

Time(sec, nsec, off) == [sec |-> sec, nsec |-> nsec, off |-> off]

\* time.Time{}
ZeroTime == Time(0, 0, 0)

\* t.Format("2006-01-02T15:04:05Z"): the wall clock of t's zone, to the
\* second, followed by a literal Z.  The text is represented by the number
\* of seconds it spells.
FormatTime(t) == t.sec + t.off

\* time.Parse("2006-01-02T15:04:05Z", s): the text read as UTC.
ParseTime(s) == Time(s, 0, 0)

\* t.After(u), t.Before(u), t.Equal(u): comparison of instants
After(t, u) == t.sec > u.sec \/ (t.sec = u.sec /\ t.nsec > u.nsec)
Before(t, u) == After(u, t)
TimeEqual(t, u) == t.sec = u.sec /\ t.nsec = u.nsec

\* time.Now()
Now == Time(clock, 0, 0)

TrimSpace_keeps(s) == s

\* strings.TrimSpace
TrimSpace(s) == IF s \in BlankUsernames THEN "" ELSE s

----------------------------------------------------------------------------
(* Inputs *)

Subscription(st, d, s, e) ==
  [SubscriptionStatus |-> st, Duration |-> d, StartSubscription |-> s, EndSubscription |-> e]

UserInput(u, c, tr, sub) ==
  [Username |-> u, ChatID |-> c, Traffic |-> tr, Subscription |-> sub]

\* whole-second UTC times around the clock's range
PlainTimes == {ZeroTime, Time(2, 0, 0)}
\* also a time with a sub-second part and a time in another zone
AnyTimes == PlainTimes \cup {Time(2, 1, 0), Time(2, 0, 1)}

AnySubs == {Subscription(st, "month", s, e) : st \in Statuses, s \in {Time(1, 0, 0), Time(1, 1, 0)}, e \in AnyTimes}

NoArg == [op |-> "none"]
NoRet == [op |-> "none"]
NoRequest == [stage |-> "idle", route |-> "", username |-> "", authorization |-> "", bind |-> TRUE,
              status |-> 0]
NilUser == [nil |-> TRUE]

----------------------------------------------------------------------------
(* Tables *)

Insert(table, key, row) ==
  [k \in DOMAIN table \cup {key} |-> IF k = key THEN row ELSE table[k]]

Delete(table, key) == [k \in DOMAIN table \ {key} |-> table[k]]

EmptyTable == [k \in {} |-> 0]

\* subscription rows that no user row references
Orphans == {i \in DOMAIN subscriptions : \A u \in DOMAIN users : users[u].subscription_id # i}

----------------------------------------------------------------------------
(* Calls and returns of Store operations *)

Return(p, r) ==
  /\ pc' = [pc EXCEPT ![p] = "idle"]
  /\ arg' = [arg EXCEPT ![p] = NoArg]
  /\ ret' = [ret EXCEPT ![p] = r]

Goto(p, label) == pc' = [pc EXCEPT ![p] = label]

\* a lock that never waits
Lock_nowait(p) == mu' = p

\* db.mu.Lock()
Lock(p) == mu = NoProc /\ mu' = p

\* a return that does not release db.mu
Unlock_never(p) == mu' = mu

\* defer db.mu.Unlock()
Unlock(p) == mu' = NoProc

----------------------------------------------------------------------------
(* SQL statements *)

\* addSubscription: the row INSERT INTO subscriptions writes
addSubscriptionRow(sub) ==
  [subscription_status |-> sub.SubscriptionStatus,
   duration |-> sub.Duration,
   start_subscription |-> FormatTime(sub.StartSubscription),
   end_subscription |-> FormatTime(sub.EndSubscription)]

\* insertUserSQL: the row INSERT INTO users (username, subscription_id, chat_id)
\* writes; traffic is not in the column list and takes DEFAULT 0
insertUserRow(in, subscriptionID) ==
  [subscription_id |-> subscriptionID, traffic |-> 0, chat_id |-> in.ChatID]

\* username TEXT PRIMARY KEY: an insert of a present username is rejected
UniqueViolation(username) == username \in DOMAIN users

userExists_always(username) == TRUE

\* userExistsSQL
userExists(username) == username \in DOMAIN users

\* selectUserSQL and the Scan and Parse of Database.User
selectUser(username) ==
  IF username \in DOMAIN users /\ users[username].subscription_id \in DOMAIN subscriptions
  THEN LET u == users[username]
           s == subscriptions[u.subscription_id]
       IN [err |-> "nil",
           user |-> [Username |-> username, Traffic |-> u.traffic, ChatID |-> u.chat_id,
                     Subscription |-> [ID |-> u.subscription_id,
                                       SubscriptionStatus |-> s.subscription_status,
                                       Duration |-> s.duration,
                                       StartSubscription |-> ParseTime(s.start_subscription),
                                       EndSubscription |-> ParseTime(s.end_subscription)]]]
  ELSE [err |-> "sql: no rows in result set", user |-> NilUser]

\* an UPDATE that matches no row
updateUserSubscriptionSQL_none(username, sub) == subscriptions

\* updateUserSubscriptionSQL: UPDATE subscriptions SET ... WHERE id =
\* (SELECT subscription_id FROM users WHERE username = ?)
updateUserSubscriptionSQL(username, sub) ==
  IF username \in DOMAIN users /\ users[username].subscription_id \in DOMAIN subscriptions
  THEN [subscriptions EXCEPT ![users[username].subscription_id] = addSubscriptionRow(sub)]
  ELSE subscriptions

deleteSubscriptionIfUnusedSQL_keeps(us, id) == subscriptions

\* a DELETE of every subscription row that no user of us references
deleteSubscriptionIfUnusedSQL_all(us, id) ==
  [i \in {j \in DOMAIN subscriptions : \E u \in DOMAIN us : us[u].subscription_id = j} |-> subscriptions[i]]

\* deleteSubscriptionIfUnusedSQL, evaluated on the users table us
deleteSubscriptionIfUnusedSQL(us, id) ==
  IF id \in DOMAIN subscriptions /\ \A u \in DOMAIN us : us[u].subscription_id # id
  THEN Delete(subscriptions, id)
  ELSE subscriptions

updateUserTrafficSQL_adds(username, traffic) ==
  IF username \in DOMAIN users
  THEN [users EXCEPT ![username].traffic = @ + traffic]
  ELSE users

\* updateUserTrafficSQL
updateUserTrafficSQL(username, traffic) ==
  IF username \in DOMAIN users
  THEN [users EXCEPT ![username].traffic = traffic]
  ELSE users

allUsername_one ==
  LET n == IF DOMAIN users = {} THEN 0 ELSE 1
  IN [1..n -> DOMAIN users]

\* the orders in which SELECT username FROM users can list the rows
allUsername ==
  LET n == Cardinality(DOMAIN users)
  IN {s \in [1..n -> DOMAIN users] : \A i, j \in 1..n : s[i] = s[j] => i = j}

----------------------------------------------------------------------------
(* Database.CreateUser *)

\* goroutines that will still insert a subscription row
Allocating == {q \in Procs : pc[q] \in {"CreateUser_Lock", "CreateUser_addSubscription"}}

Call_CreateUser(p, in) ==
  /\ pc[p] = "idle"
  /\ seq + Cardinality(Allocating) < MaxID
  /\ Goto(p, "CreateUser_Lock")
  /\ arg' = [arg EXCEPT ![p] = [op |-> "CreateUser", user |-> in, subscriptionID |-> 0]]
  /\ ret' = [ret EXCEPT ![p] = NoRet]
  /\ UNCHANGED <<serverVars, storeVars, mu, clock, engineVars, resetVars>>

CreateUser_Lock(p) ==
  /\ pc[p] = "CreateUser_Lock"
  /\ Lock(p)
  /\ Goto(p, "CreateUser_addSubscription")
  /\ UNCHANGED <<serverVars, storeVars, arg, ret, clock, engineVars, resetVars>>

\* the username check, then db.addSubscription
CreateUser_addSubscription(p) ==
  /\ pc[p] = "CreateUser_addSubscription"
  /\ IF TrimSpace(arg[p].user.Username) = ""
     THEN /\ Return(p, [op |-> "CreateUser", err |-> "unsupported username", user |-> arg[p].user])
          /\ Unlock(p)
          /\ UNCHANGED storeVars
     ELSE /\ seq' = seq + 1
          /\ subscriptions' = Insert(subscriptions, seq + 1, addSubscriptionRow(arg[p].user.Subscription))
          /\ arg' = [arg EXCEPT ![p].subscriptionID = seq + 1]
          /\ Goto(p, "CreateUser_insertUser")
          /\ UNCHANGED <<users, mu, ret>>
  /\ UNCHANGED <<serverVars, clock, engineVars, resetVars>>

\* the insert of the user row, and the return
CreateUser_insertUser(p) ==
  /\ pc[p] = "CreateUser_insertUser"
  /\ IF UniqueViolation(arg[p].user.Username)
     THEN /\ Return(p, [op |-> "CreateUser", err |-> "UNIQUE constraint failed: users.username", user |-> arg[p].user])
          /\ UNCHANGED users
     ELSE /\ users' = Insert(users, arg[p].user.Username, insertUserRow(arg[p].user, arg[p].subscriptionID))
          /\ Return(p, [op |-> "CreateUser", err |-> "nil", user |-> arg[p].user])
  /\ Unlock(p)
  /\ UNCHANGED <<serverVars, subscriptions, seq, clock, engineVars, resetVars>>

----------------------------------------------------------------------------
(* Database.UpdateUserSubscription *)

Call_UpdateUserSubscription(p, username, newSubscription) ==
  /\ pc[p] = "idle"
  /\ Goto(p, "UpdateUserSubscription_Lock")
  /\ arg' = [arg EXCEPT ![p] = [op |-> "UpdateUserSubscription", username |-> username,
                                newSubscription |-> newSubscription]]
  /\ ret' = [ret EXCEPT ![p] = NoRet]
  /\ UNCHANGED <<serverVars, storeVars, mu, clock, engineVars, resetVars>>

UpdateUserSubscription_Lock(p) ==
  /\ pc[p] = "UpdateUserSubscription_Lock"
  /\ Lock(p)
  /\ Goto(p, "UpdateUserSubscription_IsUserExists")
  /\ UNCHANGED <<serverVars, storeVars, arg, ret, clock, engineVars, resetVars>>

UpdateUserSubscription_IsUserExists(p) ==
  /\ pc[p] = "UpdateUserSubscription_IsUserExists"
  /\ IF ~userExists(arg[p].username)
     THEN /\ Return(p, [op |-> "UpdateUserSubscription", err |-> "not found", username |-> arg[p].username])
          /\ Unlock(p)
     ELSE /\ Goto(p, "UpdateUserSubscription_Exec")
          /\ UNCHANGED <<mu, arg, ret>>
  /\ UNCHANGED <<serverVars, storeVars, clock, engineVars, resetVars>>

UpdateUserSubscription_Exec(p) ==
  /\ pc[p] = "UpdateUserSubscription_Exec"
  /\ subscriptions' = updateUserSubscriptionSQL(arg[p].username, arg[p].newSubscription)
  /\ Return(p, [op |-> "UpdateUserSubscription", err |-> "nil", username |-> arg[p].username])
  /\ Unlock(p)
  /\ UNCHANGED <<serverVars, users, seq, clock, engineVars, resetVars>>

----------------------------------------------------------------------------
(* Database.DeleteUser *)

Call_DeleteUser(p, username) ==
  /\ pc[p] = "idle"
  /\ Goto(p, "DeleteUser_Lock")
  /\ arg' = [arg EXCEPT ![p] = [op |-> "DeleteUser", username |-> username, subscriptionID |-> 0]]
  /\ ret' = [ret EXCEPT ![p] = NoRet]
  /\ UNCHANGED <<serverVars, storeVars, mu, clock, engineVars, resetVars>>

DeleteUser_Lock(p) ==
  /\ pc[p] = "DeleteUser_Lock"
  /\ Lock(p)
  /\ Goto(p, "DeleteUser_subscriptionID")
  /\ UNCHANGED <<serverVars, storeVars, arg, ret, clock, engineVars, resetVars>>

DeleteUser_subscriptionID_unchecked(p) ==
  /\ pc[p] = "DeleteUser_subscriptionID"
  /\ arg' = [arg EXCEPT ![p].subscriptionID =
               IF arg[p].username \in DOMAIN users THEN users[arg[p].username].subscription_id ELSE 0]
  /\ Goto(p, "DeleteUser_deleteUser")
  /\ UNCHANGED <<serverVars, storeVars, mu, ret, clock, engineVars, resetVars>>

\* SELECT subscription_id FROM users WHERE username = ?
DeleteUser_subscriptionID(p) ==
  /\ pc[p] = "DeleteUser_subscriptionID"
  /\ IF arg[p].username \notin DOMAIN users
     THEN /\ Return(p, [op |-> "DeleteUser", err |-> "not found", username |-> arg[p].username])
          /\ Unlock(p)
     ELSE /\ arg' = [arg EXCEPT ![p].subscriptionID = users[arg[p].username].subscription_id]
          /\ Goto(p, "DeleteUser_deleteUser")
          /\ UNCHANGED <<mu, ret>>
  /\ UNCHANGED <<serverVars, storeVars, clock, engineVars, resetVars>>

\* a DeleteUser that deletes the subscription row before the user row
DeleteUser_deleteUser_subscriptionFirst(p) ==
  /\ pc[p] = "DeleteUser_deleteUser"
  /\ subscriptions' = Delete(subscriptions, arg[p].subscriptionID)
  /\ Goto(p, "DeleteUser_deleteSubscription")
  /\ UNCHANGED <<serverVars, users, seq, mu, arg, ret, clock, engineVars, resetVars>>

\* deleteUserSQL
DeleteUser_deleteUser(p) ==
  /\ pc[p] = "DeleteUser_deleteUser"
  /\ users' = Delete(users, arg[p].username)
  /\ Goto(p, "DeleteUser_deleteSubscription")
  /\ UNCHANGED <<serverVars, subscriptions, seq, mu, arg, ret, clock, engineVars, resetVars>>

\* deleteSubscriptionIfUnusedSQL, and the return
DeleteUser_deleteSubscription(p) ==
  /\ pc[p] = "DeleteUser_deleteSubscription"
  /\ subscriptions' = deleteSubscriptionIfUnusedSQL(users, arg[p].subscriptionID)
  /\ Return(p, [op |-> "DeleteUser", err |-> "nil", username |-> arg[p].username])
  /\ Unlock(p)
  /\ UNCHANGED <<serverVars, users, seq, clock, engineVars, resetVars>>

----------------------------------------------------------------------------
(* Database.UpdateUserTraffic, Database.ResetUserTraffic *)

Call_UpdateUserTraffic(p, username, traffic) ==
  /\ pc[p] = "idle"
  /\ Goto(p, "UpdateUserTraffic_Lock")
  /\ arg' = [arg EXCEPT ![p] = [op |-> "UpdateUserTraffic", username |-> username, traffic |-> traffic]]
  /\ ret' = [ret EXCEPT ![p] = NoRet]
  /\ UNCHANGED <<serverVars, storeVars, mu, clock, engineVars, resetVars>>

Call_ResetUserTraffic_keeps(p, username) ==
  /\ pc[p] = "idle"
  /\ Goto(p, "UpdateUserTraffic_Lock")
  /\ arg' = [arg EXCEPT ![p] = [op |-> "ResetUserTraffic", username |-> username, traffic |-> 1]]
  /\ ret' = [ret EXCEPT ![p] = NoRet]
  /\ UNCHANGED <<serverVars, storeVars, mu, clock, engineVars, resetVars>>

\* return db.UpdateUserTraffic(ctx, username, 0)
Call_ResetUserTraffic(p, username) ==
  /\ pc[p] = "idle"
  /\ Goto(p, "UpdateUserTraffic_Lock")
  /\ arg' = [arg EXCEPT ![p] = [op |-> "ResetUserTraffic", username |-> username, traffic |-> 0]]
  /\ ret' = [ret EXCEPT ![p] = NoRet]
  /\ UNCHANGED <<serverVars, storeVars, mu, clock, engineVars, resetVars>>

UpdateUserTraffic_Lock(p) ==
  /\ pc[p] = "UpdateUserTraffic_Lock"
  /\ Lock(p)
  /\ Goto(p, "UpdateUserTraffic_Exec")
  /\ UNCHANGED <<serverVars, storeVars, arg, ret, clock, engineVars, resetVars>>

UpdateUserTraffic_Exec(p) ==
  /\ pc[p] = "UpdateUserTraffic_Exec"
  /\ users' = updateUserTrafficSQL(arg[p].username, arg[p].traffic)
  /\ Return(p, [op |-> arg[p].op, err |-> "nil", username |-> arg[p].username])
  /\ Unlock(p)
  /\ UNCHANGED <<serverVars, subscriptions, seq, clock, engineVars, resetVars>>

\* PrepareContext or ExecContext fails (the context is over its deadline)
UpdateUserTraffic_Error(p) ==
  /\ pc[p] = "UpdateUserTraffic_Exec"
  /\ Return(p, [op |-> arg[p].op, err |-> "failed to execute update statement", username |-> arg[p].username])
  /\ Unlock(p)
  /\ UNCHANGED <<serverVars, storeVars, clock, engineVars, resetVars>>

----------------------------------------------------------------------------
(* The read operations: one query each, no lock *)

User(p, username) ==
  /\ pc[p] = "idle"
  /\ LET r == selectUser(username)
     IN ret' = [ret EXCEPT ![p] = [op |-> "User", err |-> r.err, username |-> username,
                                   user |-> r.user, locked |-> mu # NoProc]]
  /\ UNCHANGED <<serverVars, storeVars, mu, pc, arg, clock, engineVars, resetVars>>

IsUserExists(p, username) ==
  /\ pc[p] = "idle"
  /\ ret' = [ret EXCEPT ![p] = [op |-> "IsUserExists", err |-> "nil", username |-> username,
                                exists |-> userExists(username), locked |-> mu # NoProc]]
  /\ UNCHANGED <<serverVars, storeVars, mu, pc, arg, clock, engineVars, resetVars>>

\* userSubscriptionStatusSQL
SubscriptionStatus(p, username) ==
  /\ pc[p] = "idle"
  /\ LET r == selectUser(username)
     IN ret' = [ret EXCEPT ![p] =
                  [op |-> "SubscriptionStatus", username |-> username, locked |-> mu # NoProc,
                   err |-> IF r.err = "nil" THEN "nil" ELSE "failed to check subscription status",
                   status |-> IF r.err = "nil" THEN r.user.Subscription.SubscriptionStatus ELSE ""]]
  /\ UNCHANGED <<serverVars, storeVars, mu, pc, arg, clock, engineVars, resetVars>>

AllUsername(p) ==
  /\ pc[p] = "idle"
  /\ \E s \in allUsername :
       ret' = [ret EXCEPT ![p] = [op |-> "AllUsername", err |-> "nil", usernames |-> s,
                                  locked |-> mu # NoProc]]
  /\ UNCHANGED <<serverVars, storeVars, mu, pc, arg, clock, engineVars, resetVars>>

----------------------------------------------------------------------------
(* Scheduler.checkAndUpdateSubscriptions, one run per firing of the daily  *)
(* job.  The engine goroutine calls the Store operations above.            *)

\* user.Subscription.SubscriptionStatus == "inactive" && user.Subscription.EndSubscription.After(time.Now())
\* a reactivation test that does not look at the end date
reactivates_any(u) == u.Subscription.SubscriptionStatus = "inactive"

\* a reactivation test that looks at the traffic counter as well
reactivates_unmetered(u) ==
  u.Subscription.SubscriptionStatus = "inactive" /\ After(u.Subscription.EndSubscription, Now) /\ u.Traffic = 0

\* user.Subscription.SubscriptionStatus == "inactive" && user.Subscription.EndSubscription.After(time.Now())
reactivates(u) ==
  u.Subscription.SubscriptionStatus = "inactive" /\ After(u.Subscription.EndSubscription, Now)

\* an expiry test that takes the end date itself as expired
expires_inclusive(u) ==
  u.Subscription.SubscriptionStatus = "active" /\ ~After(u.Subscription.EndSubscription, Now)

\* user.Subscription.SubscriptionStatus == "active" && user.Subscription.EndSubscription.Before(time.Now())
expires(u) ==
  u.Subscription.SubscriptionStatus = "active" /\ Before(u.Subscription.EndSubscription, Now)

\* a reactivation that leaves the status as it is
reactivate_keeps(u) == u

\* user.Subscription.SubscriptionStatus = "active"
reactivate(u) == [u EXCEPT !.Subscription.SubscriptionStatus = "active"]

\* an expiry that keeps the end date
expire_keepsEnd(u) == [u EXCEPT !.Subscription.SubscriptionStatus = "inactive"]

\* user.Subscription.SubscriptionStatus = "inactive"; user.Subscription.EndSubscription = time.Time{}
expire(u) == [u EXCEPT !.Subscription.SubscriptionStatus = "inactive",
                       !.Subscription.EndSubscription = ZeroTime]

\* the Subscription value handed to UpdateUserSubscription
SubscriptionOf(u) ==
  Subscription(u.Subscription.SubscriptionStatus, u.Subscription.Duration,
               u.Subscription.StartSubscription, u.Subscription.EndSubscription)

EngineCall(username, sub) ==
  /\ Goto(Engine, "UpdateUserSubscription_Lock")
  /\ arg' = [arg EXCEPT ![Engine] = [op |-> "UpdateUserSubscription", username |-> username,
                                     newSubscription |-> sub]]

\* what the run did for the username at position idx: one entry per if
\* statement it evaluated, with the clock it read, the subscription it
\* tested, whether it took the branch and what UpdateUserSubscription returned
Evaluated(kind, applied) ==
  [runlog EXCEPT ![idx] = Append(@, [kind |-> kind, now |-> Now, sub |-> user.Subscription,
                                     applied |-> applied,
                                     err |-> IF applied THEN "pending" ELSE "none"])]

Returned ==
  [runlog EXCEPT ![idx][Len(runlog[idx])].err = ret[Engine].err]

\* a range statement that takes the same username up again
NextUsername_again ==
  /\ idx' = idx
  /\ user' = NilUser
  /\ epc' = "fetch"

\* the range statement: the next username, or the end of the run
NextUsername ==
  /\ idx' = idx + 1
  /\ user' = NilUser
  /\ epc' = IF idx + 1 > Len(usernames) THEN "stopped" ELSE "fetch"

\* usernames, err := s.db.AllUsername(ctx)
cas_AllUsername ==
  /\ epc \in {"stopped", "panicked"}
  /\ pc[Engine] = "idle"
  /\ \E s \in allUsername :
       /\ usernames' = s
       /\ runlog' = [i \in 1..Len(s) |-> <<>>]
       /\ epc' = IF Len(s) = 0 THEN "stopped" ELSE "fetch"
  /\ idx' = 1
  /\ user' = NilUser
  /\ UNCHANGED <<serverVars, resetVars, storeVars, mu, pc, arg, ret, clock>>

\* user, err := s.db.User(ctx, username); the error is logged and the
\* loop body goes on: with user == nil the read of user.Subscription panics
cas_User ==
  /\ epc = "fetch"
  /\ LET r == selectUser(usernames[idx])
     IN /\ user' = r.user
        /\ epc' = IF r.err = "nil" THEN "reactivation" ELSE "panicked"
  /\ UNCHANGED <<serverVars, resetVars, storeVars, mu, pc, arg, ret, clock, usernames, idx, runlog>>

\* the first if statement
cas_Reactivation ==
  /\ epc = "reactivation"
  /\ IF reactivates(user)
     THEN /\ user' = reactivate(user)
          /\ EngineCall(usernames[idx], SubscriptionOf(reactivate(user)))
          /\ epc' = "reactivated"
     ELSE /\ epc' = "expiry"
          /\ UNCHANGED <<user, pc, arg>>
  /\ runlog' = Evaluated("reactivation", reactivates(user))
  /\ UNCHANGED <<serverVars, resetVars, storeVars, mu, ret, clock, usernames, idx>>

\* UpdateUserSubscription has returned into the first if statement
cas_Reactivated ==
  /\ epc = "reactivated"
  /\ pc[Engine] = "idle"
  /\ runlog' = Returned
  /\ epc' = "expiry"
  /\ UNCHANGED <<serverVars, resetVars, storeVars, mu, pc, arg, ret, clock, usernames, idx, user>>

\* the second if statement
cas_Expiry ==
  /\ epc = "expiry"
  /\ IF expires(user)
     THEN /\ user' = expire(user)
          /\ EngineCall(usernames[idx], SubscriptionOf(expire(user)))
          /\ epc' = "expired"
          /\ UNCHANGED idx
     ELSE /\ NextUsername
          /\ UNCHANGED <<pc, arg>>
  /\ runlog' = Evaluated("expiry", expires(user))
  /\ UNCHANGED <<serverVars, resetVars, storeVars, mu, ret, clock, usernames>>

\* UpdateUserSubscription has returned into the second if statement
cas_Expired ==
  /\ epc = "expired"
  /\ pc[Engine] = "idle"
  /\ runlog' = Returned
  /\ NextUsername
  /\ UNCHANGED <<serverVars, resetVars, storeVars, mu, pc, arg, ret, clock, usernames>>

\* AllUsername returns an error: it is logged and the run returns
cas_AllUsername_Error ==
  /\ epc \in {"stopped", "panicked"}
  /\ pc[Engine] = "idle"
  /\ usernames' = <<>>
  /\ runlog' = <<>>
  /\ epc' = "stopped"
  /\ idx' = 1
  /\ user' = NilUser
  /\ UNCHANGED <<serverVars, resetVars, storeVars, mu, pc, arg, ret, clock>>

checkAndUpdateSubscriptions ==
  \/ cas_AllUsername
  \/ cas_User
  \/ cas_Reactivation
  \/ cas_Reactivated
  \/ cas_Expiry
  \/ cas_Expired

----------------------------------------------------------------------------
(* The checkpoint file docs/last_reset_time.txt.  In the model's calendar a *)
(* minute is two seconds long and a month is one minute long.               *)

\* no file at resetTrafficFilePath
NoFile == [exists |-> FALSE, text |-> <<>>]

\* a file holding the tokens text; os.Create leaves File(<<>>)
File(text) == [exists |-> TRUE, text |-> text]

\* t.Format(time.RFC3339): the wall clock to the second, and the zone offset
FormatRFC3339(t) == <<[sec |-> t.sec, off |-> t.off]>>

\* time.Parse(time.RFC3339, s)
ParseRFC3339(s) == Time(s[1].sec, 0, s[1].off)

\* (t.Year(), t.Month()) of t's wall clock
YearMonth(t) == (t.sec + t.off) \div 2

Months == 0..(MaxClock \div 2)

monthChanged_instant(last, now) == ~TimeEqual(last, now)

\* lastResetTime.Year() != now.Year() || lastResetTime.Month() != now.Month()
monthChanged(last, now) == YearMonth(last) # YearMonth(now)

\* time.Date(now.Year(), now.Month(), now.Day(), now.Hour(), now.Minute(), 0, 0, time.Local):
\* the start of now's minute
newResetTime(now) == Time(now.sec - (now.sec % 2), 0, 0)

----------------------------------------------------------------------------
(* Scheduler.checkAndResetTraffic *)

\* nothing observed yet
NoRun == [now |-> ZeroTime, found |-> NoFile, boot |-> FALSE, last |-> ZeroTime, err |-> FALSE,
          reset |-> FALSE, calls |-> <<>>, wrote |-> "no"]

NoCount == [runs |-> [m \in Months |-> 0],
            users |-> [u \in Usernames |-> [m \in Months |-> 0]]]

\* one more, counted up to two
Counted(n) == IF n < 2 THEN n + 1 ELSE n

\* LastResetTimeFromFile returned last: the if statement of checkAndResetTraffic
Compared(last) ==
  /\ rpc' = IF monthChanged(last, rnow) THEN "resetAllUserTraffic" ELSE "stopped"
  /\ resetrun' = [resetrun EXCEPT !.found = IF rpc = "LastResetTimeFromFile" THEN checkpoint ELSE @,
                                  !.boot = (rpc = "lrt_WriteString"),
                                  !.last = last,
                                  !.reset = monthChanged(last, rnow)]
  /\ resetcount' = IF monthChanged(last, rnow)
                   THEN [resetcount EXCEPT !.runs[YearMonth(rnow)] = Counted(@)]
                   ELSE resetcount

\* LastResetTimeFromFile or UpdateLastResetTimeInFile returned an error: log and return
Failed(what) ==
  /\ rpc' = "stopped"
  /\ resetrun' = IF what = "read"
                 THEN [resetrun EXCEPT !.err = TRUE,
                                       !.found = IF rpc = "LastResetTimeFromFile" THEN checkpoint ELSE @]
                 ELSE [resetrun EXCEPT !.wrote = "failed"]

\* the task fires: now := time.Now()
cart_Now ==
  /\ rpc = "stopped"
  /\ pc[Resetter] = "idle"
  /\ rnow' = Now
  /\ rpc' = "LastResetTimeFromFile"
  /\ resetrun' = [NoRun EXCEPT !.now = Now]
  /\ rusernames' = <<>>
  /\ ridx' = 1
  /\ UNCHANGED <<serverVars, storeVars, mu, pc, arg, ret, clock, engineVars, checkpoint, resetcount>>

\* LastResetTimeFromFile: os.Stat, then os.Create of a missing file, or
\* os.Open, Fscanf and time.Parse of the file there is
cart_LastResetTimeFromFile ==
  /\ rpc = "LastResetTimeFromFile"
  /\ IF ~checkpoint.exists
     THEN /\ checkpoint' = File(<<>>)
          /\ rpc' = "lrt_WriteString"
          /\ resetrun' = [resetrun EXCEPT !.found = checkpoint]
          /\ UNCHANGED resetcount
     ELSE IF checkpoint.text = <<>>
          THEN Failed("read") /\ UNCHANGED <<checkpoint, resetcount>>
          ELSE Compared(ParseRFC3339(checkpoint.text)) /\ UNCHANGED checkpoint
  /\ UNCHANGED <<serverVars, storeVars, mu, pc, arg, ret, clock, engineVars, rnow, rusernames, ridx>>

\* currentTime := time.Now(); file.WriteString(currentTime.Format(time.RFC3339)); return currentTime
lrt_WriteString ==
  /\ rpc = "lrt_WriteString"
  /\ checkpoint' = File(FormatRFC3339(Now))
  /\ Compared(Now)
  /\ UNCHANGED <<serverVars, storeVars, mu, pc, arg, ret, clock, engineVars, rnow, rusernames, ridx>>

\* os.Create, os.Open or file.WriteString fails in LastResetTimeFromFile
LastResetTimeFromFile_Error ==
  /\ rpc \in {"LastResetTimeFromFile", "lrt_WriteString"}
  /\ Failed("read")
  /\ UNCHANGED <<serverVars, storeVars, mu, pc, arg, ret, clock, engineVars, checkpoint, rnow, rusernames, ridx,
                 resetcount>>

\* resetAllUserTraffic: usernames, err := s.db.AllUsername(ctx)
raut_AllUsername ==
  /\ rpc = "resetAllUserTraffic"
  /\ \E s \in allUsername : rusernames' = s
  /\ ridx' = 1
  /\ rpc' = "range"
  /\ UNCHANGED <<serverVars, storeVars, mu, pc, arg, ret, clock, engineVars, checkpoint, rnow, resetrun, resetcount>>

\* for _, username := range usernames { s.db.ResetUserTraffic(ctx, username) }
raut_ResetUserTraffic ==
  /\ rpc = "range"
  /\ IF ridx > Len(rusernames)
     THEN /\ rpc' = "UpdateLastResetTimeInFile"
          /\ UNCHANGED <<pc, arg, ret>>
     ELSE /\ rpc' = "ResetUserTraffic"
          /\ Goto(Resetter, "UpdateUserTraffic_Lock")
          /\ arg' = [arg EXCEPT ![Resetter] = [op |-> "ResetUserTraffic",
                                               username |-> rusernames[ridx], traffic |-> 0]]
          /\ ret' = [ret EXCEPT ![Resetter] = NoRet]
  /\ UNCHANGED <<serverVars, storeVars, mu, clock, engineVars, checkpoint, rnow, rusernames, ridx, resetrun,
                 resetcount>>

raut_Returned_stops ==
  /\ rpc = "ResetUserTraffic"
  /\ pc[Resetter] = "idle"
  /\ resetrun' = [resetrun EXCEPT !.calls = Append(@, [username |-> rusernames[ridx],
                                                       err |-> ret[Resetter].err])]
  /\ resetcount' = IF ret[Resetter].err = "nil"
                   THEN [resetcount EXCEPT !.users[rusernames[ridx]][YearMonth(rnow)] = Counted(@)]
                   ELSE resetcount
  /\ ridx' = ridx + 1
  /\ rpc' = IF ret[Resetter].err = "nil" THEN "range" ELSE "UpdateLastResetTimeInFile"
  /\ UNCHANGED <<serverVars, storeVars, mu, pc, arg, ret, clock, engineVars, checkpoint, rnow, rusernames>>

\* ResetUserTraffic returned: an error is logged, the range goes on
raut_Returned ==
  /\ rpc = "ResetUserTraffic"
  /\ pc[Resetter] = "idle"
  /\ resetrun' = [resetrun EXCEPT !.calls = Append(@, [username |-> rusernames[ridx],
                                                       err |-> ret[Resetter].err])]
  /\ resetcount' = IF ret[Resetter].err = "nil"
                   THEN [resetcount EXCEPT !.users[rusernames[ridx]][YearMonth(rnow)] = Counted(@)]
                   ELSE resetcount
  /\ ridx' = ridx + 1
  /\ rpc' = "range"
  /\ UNCHANGED <<serverVars, storeVars, mu, pc, arg, ret, clock, engineVars, checkpoint, rnow, rusernames>>

\* UpdateLastResetTimeInFile: os.Create truncates the file
cart_UpdateLastResetTimeInFile ==
  /\ rpc = "UpdateLastResetTimeInFile"
  /\ checkpoint' = File(<<>>)
  /\ rpc' = "ulrt_Fprintf"
  /\ UNCHANGED <<serverVars, storeVars, mu, pc, arg, ret, clock, engineVars, rnow, rusernames, ridx, resetrun,
                 resetcount>>

\* fmt.Fprintf(file, "%s", lastResetTime.Format(time.RFC3339)), and the return
ulrt_Fprintf ==
  /\ rpc = "ulrt_Fprintf"
  /\ checkpoint' = File(FormatRFC3339(newResetTime(rnow)))
  /\ rpc' = "stopped"
  /\ resetrun' = [resetrun EXCEPT !.wrote = "ok"]
  /\ UNCHANGED <<serverVars, storeVars, mu, pc, arg, ret, clock, engineVars, rnow, rusernames, ridx, resetcount>>

\* os.Create or fmt.Fprintf fails in UpdateLastResetTimeInFile
UpdateLastResetTimeInFile_Error ==
  /\ rpc \in {"UpdateLastResetTimeInFile", "ulrt_Fprintf"}
  /\ Failed("write")
  /\ UNCHANGED <<serverVars, storeVars, mu, pc, arg, ret, clock, engineVars, checkpoint, rnow, rusernames, ridx,
                 resetcount>>

\* AllUsername returns an error in resetAllUserTraffic: it is logged and
\* resetAllUserTraffic returns; checkAndResetTraffic goes on
raut_AllUsername_Error ==
  /\ rpc = "resetAllUserTraffic"
  /\ rusernames' = <<>>
  /\ ridx' = 1
  /\ rpc' = "UpdateLastResetTimeInFile"
  /\ UNCHANGED <<serverVars, storeVars, mu, pc, arg, ret, clock, engineVars, checkpoint, rnow, resetrun,
                 resetcount>>

\* cron starts every firing of the task in a goroutine of its own, so a
\* firing can come while an invocation is running.  This is the invocation
\* of such a firing, from time.Now() to its return, in the schedule where no
\* other goroutine takes a step meanwhile: it reads the checkpoint there is
\* and, in another month, resets every user and writes the checkpoint
cart_Overlapping ==
  /\ rpc \notin {"stopped", "lrt_WriteString", "ulrt_Fprintf"}
  /\ mu = NoProc
  /\ checkpoint.exists /\ checkpoint.text # <<>>
  /\ IF monthChanged(ParseRFC3339(checkpoint.text), Now)
     THEN /\ users' = [u \in DOMAIN users |-> [users[u] EXCEPT !.traffic = 0]]
          /\ checkpoint' = File(FormatRFC3339(newResetTime(Now)))
          /\ resetcount' = [runs |-> [resetcount.runs EXCEPT ![YearMonth(Now)] = Counted(@)],
                            users |-> [u \in Usernames |->
                                         IF u \in DOMAIN users
                                         THEN [resetcount.users[u] EXCEPT ![YearMonth(Now)] = Counted(@)]
                                         ELSE resetcount.users[u]]]
     ELSE UNCHANGED <<users, checkpoint, resetcount>>
  /\ UNCHANGED <<serverVars, subscriptions, seq, mu, pc, arg, ret, clock, engineVars, rpc, rnow, rusernames, ridx,
                 resetrun>>

checkAndResetTraffic ==
  \/ cart_Now
  \/ cart_LastResetTimeFromFile
  \/ lrt_WriteString
  \/ raut_AllUsername
  \/ raut_ResetUserTraffic
  \/ raut_Returned
  \/ cart_UpdateLastResetTimeInFile
  \/ ulrt_Fprintf

----------------------------------------------------------------------------
(* The Scheduler (pkg/scheduler): the cron instance, the registration of   *)
(* the two tasks, Start and Stop.  A cadence is kept as the string the     *)
(* code passes to cron.AddFunc; a job is named by the method it runs.      *)

resetTraffic == "resetTraffic"
checkSubscriptions == "checkSubscriptions"

TaskNames == {resetTraffic, checkSubscriptions}

schedulerPlans == [name \in TaskNames |-> IF name = resetTraffic THEN "@weekly" ELSE "@daily"]

\* the cadences RegisterTask is given: the plan of the task, or one that
\* cron cannot parse
Malformed == "@fortnightly"
Cadences(name) == {schedulerPlans[name], Malformed}

Task(name, schedule, run) == [Name |-> name, Schedule |-> schedule, Run |-> run]

\* cron.Parse of a descriptor: nil for the predefined ones, an error otherwise
Descriptors == {"@yearly", "@annually", "@monthly", "@weekly", "@daily", "@midnight", "@hourly"}
ParseError(schedule) == schedule \notin Descriptors

getTaskRunFunction(name) ==
  CASE name = resetTraffic -> "checkAndResetTraffic"
    [] name = checkSubscriptions -> "checkAndUpdateSubscriptions"
    [] OTHER -> "log"

Jobs == {getTaskRunFunction(name) : name \in TaskNames}

\* cron.New()
NewCron == [running |-> FALSE, entries |-> {}]

CronEntry(schedule, run) == [Schedule |-> schedule, Run |-> run]

\* the jobs cron holds an entry for
Scheduled == {e.Run : e \in cron.entries}

\* RegisterTask with the error of AddFunc taken for success
RegisterTask_schedules(name, schedule) ==
  /\ name \notin {t.Name : t \in tasks}
  /\ tasks' = tasks \cup {Task(name, schedule, getTaskRunFunction(name))}
  /\ cron' = [cron EXCEPT !.entries = @ \cup {CronEntry(schedule, getTaskRunFunction(name))}]
  /\ UNCHANGED <<storeVars, mu, pc, arg, ret, clock, engineVars, resetVars, http>>

\* s.tasks = append(s.tasks, task); s.cron.AddFunc(schedule, run): an error
\* of AddFunc is logged and nothing else.  initializeTasks calls it once
\* for every name of schedulerPlans, in the order the map yields them
RegisterTask(name, schedule) ==
  /\ name \notin {t.Name : t \in tasks}
  /\ tasks' = tasks \cup {Task(name, schedule, getTaskRunFunction(name))}
  /\ cron' = IF ParseError(schedule)
             THEN cron
             ELSE [cron EXCEPT !.entries = @ \cup {CronEntry(schedule, getTaskRunFunction(name))}]
  /\ UNCHANGED <<storeVars, mu, pc, arg, ret, clock, engineVars, resetVars, http>>

\* s.cron.Start(): the run loop begins.  The Scheduler it is called on is
\* the one NewScheduler returned, so initializeTasks has gone through the map
Start ==
  /\ {t.Name : t \in tasks} = TaskNames
  /\ cron' = [cron EXCEPT !.running = TRUE]
  /\ UNCHANGED <<storeVars, mu, pc, arg, ret, clock, engineVars, resetVars, tasks, http>>

\* Stop that also abandons the jobs that are running
Stop_interrupts ==
  /\ cron.running
  /\ cron' = [cron EXCEPT !.running = FALSE]
  /\ epc' = "stopped"
  /\ rpc' = "stopped"
  /\ UNCHANGED <<storeVars, mu, pc, arg, ret, clock, usernames, idx, user, runlog, checkpoint,
                 rnow, rusernames, ridx, resetrun, resetcount, tasks, http>>

\* s.cron.Stop(): the run loop ends; the goroutines of the jobs it started
\* are not touched
Stop ==
  /\ cron.running
  /\ cron' = [cron EXCEPT !.running = FALSE]
  /\ UNCHANGED <<storeVars, mu, pc, arg, ret, clock, engineVars, resetVars, tasks, http>>

\* the first statement of a job
Begins(run) ==
  CASE run = "checkAndResetTraffic" -> cart_Now
    [] run = "checkAndUpdateSubscriptions" -> cas_AllUsername
    [] OTHER -> FALSE

\* the run loop reaches the time of an entry and starts its job
Fire(run) ==
  /\ cron.running
  /\ run \in Scheduled
  /\ Begins(run)

\* what NewScheduler and Start leave when every cadence is the planned one
Registered == {Task(name, schedulerPlans[name], getTaskRunFunction(name)) : name \in TaskNames}
Started == [running |-> TRUE,
            entries |-> {CronEntry(t.Schedule, t.Run) : t \in Registered}]

----------------------------------------------------------------------------
(* The HTTP API (pkg/handler/userHandler.go): a request goes through       *)
(* BotAuthMiddleware and then, unless aborted, through the handler of its  *)
(* route.  A handler is the goroutine of its client: its Store call runs   *)
(* as the statements of the Store operation.  http[p].stage is where the   *)
(* request is: "handler" at the entry of the handler, "exists" after       *)
(* checkUserExists, "store" inside the mutating Store call, "done" when    *)
(* the response is complete.                                               *)

\* the value of BOT_TOKEN, which NewHandler requires to be non-empty
BotToken == "tok"

\* the routes of setupRouter, by their handler
UserRoutes == {"createUser", "user", "updateUserSubscription", "deleteUser", "subscriptionStatus",
               "isUserExists", "updateUserTraffic"}
Routes == UserRoutes \cup {"swagger"}

\* the handlers that decode a JSON body
Binding == {"createUser", "updateUserSubscription", "updateUserTraffic"}

\* the Authorization headers a request comes with: the right one, and ones
\* that differ from it in the token, the scheme, the case or by being absent
Authorizations == {"Bearer tok", "Bearer tok2", "bearer tok", "tok", ""}

\* the bodies of the requests
BodyUser(username) ==
  UserInput(username, 1, 0, Subscription("active", "month", Time(1, 0, 0), Time(2, 0, 0)))
BodySubscription == Subscription("inactive", "month", Time(1, 0, 0), Time(3, 0, 0))
BodyTraffic == 1

\* bind says whether BindJSON accepts the body
Requests ==
  {[stage |-> "handler", route |-> r, username |-> "a", authorization |-> a, bind |-> b, status |-> 0] :
     r \in Routes, a \in Authorizations, b \in BOOLEAN}

\* c.JSON(status, ...) as the last statement of the chain
Answer(p, status) == http' = [http EXCEPT ![p].stage = "done", ![p].status = status]

At(p, route, stage) == http[p].route = route /\ http[p].stage = stage

\* the middleware answering 401 without c.Abort(): the chain goes on
BotAuthMiddleware_next(p, req) ==
  /\ http[p].stage \in {"idle", "done"}
  /\ pc[p] = "idle"
  /\ req.bind \/ req.route \in Binding
  /\ http' = [http EXCEPT ![p] =
                IF req.route = "swagger" THEN req
                ELSE IF req.authorization # "Bearer " \o BotToken
                     THEN [req EXCEPT !.status = 401]
                     ELSE req]
  /\ UNCHANGED <<storeVars, mu, pc, arg, ret, clock, engineVars, resetVars, cron, tasks>>

\* a request arrives: a /swagger path passes; any other path whose
\* Authorization header is not "Bearer "+h.botToken is answered 401 and
\* aborted; else c.Next()
BotAuthMiddleware(p, req) ==
  /\ http[p].stage \in {"idle", "done"}
  /\ pc[p] = "idle"
  /\ req.bind \/ req.route \in Binding
  /\ http' = [http EXCEPT ![p] =
                IF req.route = "swagger" THEN req
                ELSE IF req.authorization # "Bearer " \o BotToken
                     THEN [req EXCEPT !.stage = "done", !.status = 401]
                     ELSE req]
  /\ UNCHANGED <<storeVars, mu, pc, arg, ret, clock, engineVars, resetVars, cron, tasks>>

\* h.checkUserExists: IsUserExists, and 404 when the user is not there
checkUserExists(p) ==
  /\ ret' = [ret EXCEPT ![p] = [op |-> "IsUserExists", err |-> "nil", username |-> http[p].username,
                                exists |-> userExists(http[p].username), locked |-> mu # NoProc]]
  /\ IF userExists(http[p].username)
     THEN http' = [http EXCEPT ![p].stage = "exists"]
     ELSE Answer(p, 404)

\* the handler enters a mutating Store operation
HandlerCall(p, label, a) ==
  /\ Goto(p, label)
  /\ arg' = [arg EXCEPT ![p] = a]
  /\ ret' = [ret EXCEPT ![p] = NoRet]
  /\ http' = [http EXCEPT ![p].stage = "store"]

\* the Store operation has returned: 500 on an error, else the status given
HandlerReturn(p, status) ==
  /\ pc[p] = "idle"
  /\ Answer(p, IF ret[p].err # "nil" THEN 500 ELSE status)
  /\ UNCHANGED <<pc, arg, ret>>

h_createUser(p) ==
  /\ \/ /\ At(p, "createUser", "handler")
        /\ IF ~http[p].bind
           THEN Answer(p, 400) /\ UNCHANGED <<pc, arg, ret>>
           ELSE /\ seq + Cardinality(Allocating) < MaxID
                /\ HandlerCall(p, "CreateUser_Lock",
                               [op |-> "CreateUser", user |-> BodyUser(http[p].username),
                                subscriptionID |-> 0])
     \/ /\ At(p, "createUser", "store")
        /\ HandlerReturn(p, 201)
  /\ UNCHANGED <<storeVars, mu, clock, engineVars, resetVars, cron, tasks>>

h_user(p) ==
  /\ At(p, "user", "handler")
  /\ LET r == selectUser(http[p].username)
     IN /\ ret' = [ret EXCEPT ![p] = [op |-> "User", err |-> r.err, username |-> http[p].username,
                                      user |-> r.user, locked |-> mu # NoProc]]
        /\ Answer(p, IF r.user = NilUser THEN 404 ELSE IF r.err # "nil" THEN 500 ELSE 200)
  /\ UNCHANGED <<storeVars, mu, pc, arg, clock, engineVars, resetVars, cron, tasks>>

h_updateUserSubscription(p) ==
  /\ \/ /\ At(p, "updateUserSubscription", "handler")
        /\ IF ~http[p].bind
           THEN Answer(p, 400) /\ UNCHANGED ret
           ELSE checkUserExists(p)
        /\ UNCHANGED <<pc, arg>>
     \/ /\ At(p, "updateUserSubscription", "exists")
        /\ HandlerCall(p, "UpdateUserSubscription_Lock",
                       [op |-> "UpdateUserSubscription", username |-> http[p].username,
                        newSubscription |-> BodySubscription])
     \/ /\ At(p, "updateUserSubscription", "store")
        /\ HandlerReturn(p, 200)
  /\ UNCHANGED <<storeVars, mu, clock, engineVars, resetVars, cron, tasks>>

h_deleteUser(p) ==
  /\ \/ /\ At(p, "deleteUser", "handler")
        /\ checkUserExists(p)
        /\ UNCHANGED <<pc, arg>>
     \/ /\ At(p, "deleteUser", "exists")
        /\ HandlerCall(p, "DeleteUser_Lock",
                       [op |-> "DeleteUser", username |-> http[p].username, subscriptionID |-> 0])
     \/ /\ At(p, "deleteUser", "store")
        /\ HandlerReturn(p, 204)
  /\ UNCHANGED <<storeVars, mu, clock, engineVars, resetVars, cron, tasks>>

h_subscriptionStatus(p) ==
  /\ \/ /\ At(p, "subscriptionStatus", "handler")
        /\ checkUserExists(p)
     \/ /\ At(p, "subscriptionStatus", "exists")
        /\ LET r == selectUser(http[p].username)
           IN /\ ret' = [ret EXCEPT ![p] =
                           [op |-> "SubscriptionStatus", username |-> http[p].username,
                            locked |-> mu # NoProc,
                            err |-> IF r.err = "nil" THEN "nil"
                                    ELSE "failed to check subscription status",
                            status |-> IF r.err = "nil" THEN r.user.Subscription.SubscriptionStatus
                                       ELSE ""]]
              /\ Answer(p, IF r.err # "nil" THEN 500 ELSE 200)
  /\ UNCHANGED <<storeVars, mu, pc, arg, clock, engineVars, resetVars, cron, tasks>>

h_isUserExists(p) ==
  /\ At(p, "isUserExists", "handler")
  /\ ret' = [ret EXCEPT ![p] = [op |-> "IsUserExists", err |-> "nil", username |-> http[p].username,
                                exists |-> userExists(http[p].username), locked |-> mu # NoProc]]
  /\ Answer(p, 200)
  /\ UNCHANGED <<storeVars, mu, pc, arg, clock, engineVars, resetVars, cron, tasks>>

h_updateUserTraffic(p) ==
  /\ \/ /\ At(p, "updateUserTraffic", "handler")
        /\ IF ~http[p].bind
           THEN Answer(p, 400) /\ UNCHANGED ret
           ELSE checkUserExists(p)
        /\ UNCHANGED <<pc, arg>>
     \/ /\ At(p, "updateUserTraffic", "exists")
        /\ HandlerCall(p, "UpdateUserTraffic_Lock",
                       [op |-> "UpdateUserTraffic", username |-> http[p].username,
                        traffic |-> BodyTraffic])
     \/ /\ At(p, "updateUserTraffic", "store")
        /\ HandlerReturn(p, 200)
  /\ UNCHANGED <<storeVars, mu, clock, engineVars, resetVars, cron, tasks>>

\* ginSwagger.WrapHandler: static documentation, no Store call
h_swagger(p) ==
  /\ At(p, "swagger", "handler")
  /\ Answer(p, 200)
  /\ UNCHANGED <<storeVars, mu, pc, arg, ret, clock, engineVars, resetVars, cron, tasks>>

\* the handler of the route of the request
Handler(p) ==
  \/ h_createUser(p)
  \/ h_user(p)
  \/ h_updateUserSubscription(p)
  \/ h_deleteUser(p)
  \/ h_subscriptionStatus(p)
  \/ h_isUserExists(p)
  \/ h_updateUserTraffic(p)
  \/ h_swagger(p)

\* the process is killed and started again: main opens the database file
\* that is there (CREATE TABLE IF NOT EXISTS) and starts a new scheduler;
\* the tables and the checkpoint file are what the killed process left
main ==
  /\ pc' = [p \in Procs |-> "idle"]
  /\ arg' = [p \in Procs |-> NoArg]
  /\ ret' = [p \in Procs |-> NoRet]
  /\ mu' = NoProc
  /\ epc' = "stopped"
  /\ usernames' = <<>>
  /\ idx' = 1
  /\ user' = NilUser
  /\ runlog' = <<>>
  /\ rpc' = "stopped"
  /\ rnow' = ZeroTime
  /\ rusernames' = <<>>
  /\ ridx' = 1
  /\ tasks' = Registered
  /\ cron' = Started
  /\ http' = [p \in Clients |-> NoRequest]
  /\ UNCHANGED <<storeVars, clock, checkpoint, resetrun, resetcount>>

\* the wall clock advances
Tick ==
  /\ clock < MaxClock
  /\ clock' = clock + 1
  /\ UNCHANGED <<serverVars, storeVars, mu, pc, arg, ret, engineVars, resetVars>>

----------------------------------------------------------------------------
(* Specifications *)

\* NewDatabase on a fresh file and NewHandler: empty tables, no job running,
\* no request being served; then NewScheduler and Start: both tasks scheduled
Construction ==
  /\ users = EmptyTable
  /\ subscriptions = EmptyTable
  /\ seq = 0
  /\ mu = NoProc
  /\ pc = [p \in Procs |-> "idle"]
  /\ arg = [p \in Procs |-> NoArg]
  /\ ret = [p \in Procs |-> NoRet]
  /\ clock = 1
  /\ epc = "stopped"
  /\ usernames = <<>>
  /\ idx = 1
  /\ user = NilUser
  /\ runlog = <<>>
  /\ checkpoint = NoFile
  /\ rpc = "stopped"
  /\ rnow = ZeroTime
  /\ rusernames = <<>>
  /\ ridx = 1
  /\ resetrun = NoRun
  /\ resetcount = NoCount
  /\ http = [p \in Clients |-> NoRequest]

Init ==
  /\ Construction
  /\ tasks = Registered
  /\ cron = Started

\* the same at the entry of NewScheduler: cron.New(), no task yet
InitScheduler ==
  /\ Construction
  /\ tasks = {}
  /\ cron = NewCron

CreateUserStep(p) ==
  \/ CreateUser_Lock(p)
  \/ CreateUser_addSubscription(p)
  \/ CreateUser_insertUser(p)

UpdateUserSubscriptionStep(p) ==
  \/ UpdateUserSubscription_Lock(p)
  \/ UpdateUserSubscription_IsUserExists(p)
  \/ UpdateUserSubscription_Exec(p)

DeleteUserStep(p) ==
  \/ DeleteUser_Lock(p)
  \/ DeleteUser_subscriptionID(p)
  \/ DeleteUser_deleteUser(p)
  \/ DeleteUser_deleteSubscription(p)

UpdateUserTrafficStep(p) ==
  \/ UpdateUserTraffic_Lock(p)
  \/ UpdateUserTraffic_Exec(p)

\* the Store under concurrent requests
StoreInputs ==
  {UserInput("a", 1, 0, Subscription("inactive", "month", Time(1, 0, 0), ZeroTime)),
   UserInput("a", 2, 1, Subscription("active", "month", Time(1, 0, 0), Time(2, 0, 0))),
   UserInput(" ", 1, 0, Subscription("inactive", "month", Time(1, 0, 0), ZeroTime))}

StoreCall(p) ==
  \/ \E in \in StoreInputs : Call_CreateUser(p, in)
  \/ Call_UpdateUserSubscription(p, "a", Subscription("active", "year", Time(1, 0, 0), Time(2, 0, 0)))
  \/ Call_DeleteUser(p, "a")
  \/ \E tr \in Traffics : Call_UpdateUserTraffic(p, "a", tr)
  \/ Call_ResetUserTraffic(p, "a")
  \/ User(p, "a")
  \/ IsUserExists(p, "a")
  \/ SubscriptionStatus(p, "a")
  \/ AllUsername(p)

Next ==
  \E p \in Clients :
    \/ StoreCall(p)
    \/ CreateUserStep(p)
    \/ UpdateUserSubscriptionStep(p)
    \/ DeleteUserStep(p)
    \/ UpdateUserTrafficStep(p)

Spec == Init /\ [][Next]_vars

\* two requests, each creating one user
TwoCreatesInputs ==
  {UserInput(u, c, tr, Subscription("active", "month", Time(1, 0, 0), Time(2, 0, 0))) :
     u \in Usernames, c \in ChatIDs, tr \in Traffics}

TwoCreatesNext ==
  \E p \in Clients :
    \/ ret[p] = NoRet /\ \E in \in TwoCreatesInputs : Call_CreateUser(p, in)
    \/ CreateUserStep(p)

SpecTwoCreates == Init /\ [][TwoCreatesNext]_vars

\* the Store called by one request at a time
RoundTripInputs == {UserInput("a", c, tr, sub) : c \in ChatIDs, tr \in Traffics, sub \in AnySubs}

RoundTripNext ==
  \/ \E in \in RoundTripInputs : Call_CreateUser("c1", in)
  \/ User("c1", "a")
  \/ Call_DeleteUser("c1", "a")
  \/ CreateUserStep("c1")
  \/ DeleteUserStep("c1")

SpecRoundTrip == Init /\ [][RoundTripNext]_vars

\* requests that create users and replace their subscriptions, one at a time
UpdateInputs ==
  {UserInput(u, 1, 0, Subscription("inactive", "month", Time(1, 0, 0), ZeroTime)) : u \in Usernames}

UpdateNext ==
  \/ \E in \in UpdateInputs : Call_CreateUser("c1", in)
  \/ \E u \in Usernames, sub \in AnySubs : Call_UpdateUserSubscription("c1", u, sub)
  \/ Call_UpdateUserTraffic("c1", "a", 1)
  \/ CreateUserStep("c1")
  \/ UpdateUserSubscriptionStep("c1")
  \/ UpdateUserTrafficStep("c1")

SpecUpdate == Init /\ [][UpdateNext]_vars

\* the Traffic Reset Engine, the clock, and requests that create users and
\* report their traffic; a ResetUserTraffic of the engine can fail
ResetInputs ==
  {UserInput(u, 1, 0, Subscription("active", "month", Time(1, 0, 0), Time(2, 0, 0))) : u \in Usernames}

ResetNext ==
  \/ \E in \in ResetInputs : Call_CreateUser("c1", in)
  \/ \E u \in Usernames : Call_UpdateUserTraffic("c1", u, 1)
  \/ CreateUserStep("c1")
  \/ UpdateUserTrafficStep("c1")
  \/ UpdateUserTrafficStep(Resetter)
  \/ UpdateUserTraffic_Error(Resetter)
  \/ checkAndResetTraffic
  \/ Tick

SpecReset == Init /\ [][ResetNext]_vars

\* the Traffic Reset Engine when reading and writing the checkpoint file can fail
ResetFaultsNext ==
  \/ \E in \in ResetInputs : Call_CreateUser("c1", in)
  \/ CreateUserStep("c1")
  \/ UpdateUserTrafficStep(Resetter)
  \/ checkAndResetTraffic
  \/ LastResetTimeFromFile_Error
  \/ UpdateLastResetTimeInFile_Error
  \/ Tick

SpecResetFaults == Init /\ [][ResetFaultsNext]_vars

\* the Traffic Reset Engine in a process that can be killed and started again
ResetRestartNext ==
  \/ \E in \in ResetInputs : Call_CreateUser("c1", in)
  \/ CreateUserStep("c1")
  \/ UpdateUserTrafficStep(Resetter)
  \/ checkAndResetTraffic
  \/ main
  \/ Tick

SpecResetRestart == Init /\ [][ResetRestartNext]_vars

\* the Store in a process that can be killed and started again
RestartNext ==
  \/ \E p \in Clients :
       \/ \E in \in StoreInputs : Call_CreateUser(p, in)
       \/ Call_DeleteUser(p, "a")
       \/ CreateUserStep(p)
       \/ DeleteUserStep(p)
  \/ main

SpecRestart == Init /\ [][RestartNext]_vars

\* concurrent requests that create users, report and reset traffic and
\* list the usernames
TrafficValues == {-1, 1, 2}

TrafficInputs ==
  {UserInput(u, 1, 0, Subscription("active", "month", Time(1, 0, 0), Time(2, 0, 0))) :
     u \in Usernames \cup BlankUsernames}

TrafficNext ==
  \E p \in Clients :
    \/ \E in \in TrafficInputs : Call_CreateUser(p, in)
    \/ \E u \in Usernames, v \in TrafficValues : Call_UpdateUserTraffic(p, u, v)
    \/ \E u \in Usernames : Call_ResetUserTraffic(p, u)
    \/ AllUsername(p)
    \/ CreateUserStep(p)
    \/ UpdateUserTrafficStep(p)

SpecTraffic == Init /\ [][TrafficNext]_vars

\* requests that create users without subscription values
NoSubscription == Subscription("", "", ZeroTime, ZeroTime)

DefaultsNext ==
  \/ \E u \in Usernames : Call_CreateUser("c1", UserInput(u, 1, 0, NoSubscription))
  \/ \E u \in Usernames : Call_DeleteUser("c1", u)
  \/ \E u \in Usernames : User("c1", u)
  \/ CreateUserStep("c1")
  \/ DeleteUserStep("c1")
  \/ Tick

SpecDefaults == Init /\ [][DefaultsNext]_vars

\* the HTTP API: the requests of a client to every route, with and without
\* the bot token, and the Store operations their handlers run
HTTPNext ==
  \/ \E req \in Requests : BotAuthMiddleware("c1", req)
  \/ Handler("c1")
  \/ CreateUserStep("c1")
  \/ UpdateUserSubscriptionStep("c1")
  \/ DeleteUserStep("c1")
  \/ UpdateUserTrafficStep("c1")

SpecHTTP == Init /\ [][HTTPNext]_vars

\* the Subscription Lifecycle Engine next to a client that renews the
\* subscription of the user with UpdateUserSubscription
RenewalInputs ==
  {UserInput("a", 1, 0, Subscription("inactive", "month", Time(1, 0, 0), Time(2, 0, 0)))}

Renewals == {Subscription("inactive", "year", Time(2, 0, 0), Time(3, 0, 0))}

RenewalNext ==
  \/ \E in \in RenewalInputs : Call_CreateUser("c1", in)
  \/ \E sub \in Renewals : Call_UpdateUserSubscription("c1", "a", sub)
  \/ CreateUserStep("c1")
  \/ UpdateUserSubscriptionStep("c1")
  \/ UpdateUserSubscriptionStep(Engine)
  \/ checkAndUpdateSubscriptions
  \/ Tick

SpecRenewal == Init /\ [][RenewalNext]_vars

\* the Scheduler from its construction on: the registration of the tasks
\* with a cadence that may be malformed, Start, Stop, the firings and the
\* steps of the two jobs, over one user a request creates
SchedulerInputs ==
  {UserInput("a", 1, 0, Subscription("inactive", "month", Time(1, 0, 0), Time(2, 0, 0)))}

LifecycleStep ==
  \/ cas_User
  \/ cas_Reactivation
  \/ cas_Reactivated
  \/ cas_Expiry
  \/ cas_Expired
  \/ UpdateUserSubscriptionStep(Engine)

ResetStep ==
  \/ cart_LastResetTimeFromFile
  \/ lrt_WriteString
  \/ raut_AllUsername
  \/ raut_ResetUserTraffic
  \/ raut_Returned
  \/ cart_UpdateLastResetTimeInFile
  \/ ulrt_Fprintf
  \/ UpdateUserTrafficStep(Resetter)

SchedulerNext ==
  \/ \E name \in TaskNames : \E schedule \in Cadences(name) : RegisterTask(name, schedule)
  \/ Start
  \/ Stop
  \/ \E run \in Jobs : Fire(run)
  \/ LifecycleStep
  \/ ResetStep
  \/ \E in \in SchedulerInputs : Call_CreateUser("c1", in)
  \/ CreateUserStep("c1")
  \/ Tick

SpecScheduler == InitScheduler /\ [][SchedulerNext]_vars

\* the Lifecycle Engine, the clock, and requests that create and delete users
LifecycleInputs ==
  {UserInput("a", 1, 0, Subscription("inactive", "month", Time(1, 0, 0), Time(2, 0, 0))),
   UserInput("b", 1, 0, Subscription("active", "month", Time(1, 0, 0), Time(2, 0, 0)))}

LifecycleNext ==
  \/ \E in \in LifecycleInputs : Call_CreateUser("c1", in)
  \/ \E u \in Usernames : Call_DeleteUser("c1", u)
  \/ CreateUserStep("c1")
  \/ DeleteUserStep("c1")
  \/ UpdateUserSubscriptionStep(Engine)
  \/ checkAndUpdateSubscriptions
  \/ Tick

SpecLifecycle == Init /\ [][LifecycleNext]_vars

\* the Subscription Lifecycle Engine at a fixed time with nothing beside
\* it: users are created and the clock is set before the first run that
\* finds a user; from then on only runs of the engine take place, and a
\* run starts only when no request is inside the Store
Before1stRun == epc = "stopped" /\ runlog = <<>>

FixedTimeNext ==
  \/ Before1stRun /\ \E in \in LifecycleInputs : Call_CreateUser("c1", in)
  \/ CreateUserStep("c1")
  \/ Before1stRun /\ Tick
  \/ pc["c1"] = "idle" /\ cas_AllUsername
  \/ cas_User
  \/ cas_Reactivation
  \/ cas_Reactivated
  \/ cas_Expiry
  \/ cas_Expired
  \/ UpdateUserSubscriptionStep(Engine)

SpecFixedTime == Init /\ [][FixedTimeNext]_vars

\* the Subscription Lifecycle Engine under the scheduling the program runs
\* with: the daily job keeps firing, a goroutine that can take its next
\* statement takes it, and a goroutine that waits for db.mu gets it (a
\* sync.Mutex hands the lock to a waiter that has been starved); the
\* requests create the users that are not there and delete user a only
ExpiryNext ==
  \/ \E in \in LifecycleInputs : in.Username \notin DOMAIN users /\ Call_CreateUser("c1", in)
  \/ Call_DeleteUser("c1", "a")
  \/ CreateUserStep("c1")
  \/ DeleteUserStep("c1")
  \/ UpdateUserSubscriptionStep(Engine)
  \/ checkAndUpdateSubscriptions
  \/ Tick

SpecExpiry ==
  /\ Init
  /\ [][ExpiryNext]_vars
  /\ WF_vars(checkAndUpdateSubscriptions)
  /\ SF_vars(UpdateUserSubscriptionStep(Engine))
  /\ WF_vars(CreateUserStep("c1") \/ DeleteUserStep("c1"))

\* the two engines, one run at a time, each with an AllUsername that can
\* fail, next to requests that create and delete the user
TerminationNext ==
  \/ \E in \in SchedulerInputs : in.Username \notin DOMAIN users /\ Call_CreateUser("c1", in)
  \/ Call_DeleteUser("c1", "a")
  \/ CreateUserStep("c1")
  \/ DeleteUserStep("c1")
  \/ rpc = "stopped" /\ cas_AllUsername
  \/ rpc = "stopped" /\ cas_AllUsername_Error
  \/ LifecycleStep
  \/ epc \in {"stopped", "panicked"} /\ cart_Now
  \/ ResetStep
  \/ raut_AllUsername_Error
  \/ Tick

SpecTermination == Init /\ [][TerminationNext]_vars

\* the mutating operations of two clients, with the returns on an error
\* (a blank or taken username, a user that is not there, a statement that
\* fails), under the scheduling of goroutines: one that can take its next
\* statement takes it, and one that waits for db.mu gets it
StoreStep(p) ==
  \/ CreateUserStep(p)
  \/ UpdateUserSubscriptionStep(p)
  \/ DeleteUserStep(p)
  \/ UpdateUserTrafficStep(p)
  \/ UpdateUserTraffic_Error(p)

LockCall(p) ==
  \/ \E in \in StoreInputs : Call_CreateUser(p, in)
  \/ Call_UpdateUserSubscription(p, "a", Subscription("active", "year", Time(1, 0, 0), Time(2, 0, 0)))
  \/ Call_DeleteUser(p, "a")
  \/ Call_UpdateUserTraffic(p, "a", 1)
  \/ Call_ResetUserTraffic(p, "a")

LockNext == \E p \in Clients : LockCall(p) \/ StoreStep(p)

SpecLock == Init /\ [][LockNext]_vars /\ \A p \in Clients : SF_vars(StoreStep(p))

\* two clients that create and delete a user each and read the other's
\* while it is being created or deleted
RowsNext ==
  \/ \E in \in LifecycleInputs :
       \E p \in Clients : (in.Username = "a" <=> p = "c1") /\ Call_CreateUser(p, in)
  \/ Call_DeleteUser("c1", "a")
  \/ Call_DeleteUser("c2", "b")
  \/ User("c1", "b")
  \/ User("c2", "a")
  \/ SubscriptionStatus("c1", "b")
  \/ SubscriptionStatus("c2", "a")
  \/ \E p \in Clients : CreateUserStep(p) \/ DeleteUserStep(p)

SpecRows == Init /\ [][RowsNext]_vars


\* CreateUser and DeleteUser of a client and the runs of both engines, with
\* their UpdateUserSubscription and ResetUserTraffic, over a username created twice
OrphanInputs ==
  {UserInput("a", 1, 0, Subscription("inactive", "month", Time(1, 0, 0), Time(2, 0, 0))),
   UserInput("a", 2, 1, Subscription("active", "month", Time(1, 0, 0), Time(2, 0, 0)))}

OrphanNext ==
  \/ \E in \in OrphanInputs : Call_CreateUser("c1", in)
  \/ Call_DeleteUser("c1", "a")
  \/ CreateUserStep("c1")
  \/ DeleteUserStep("c1")
  \/ rpc = "stopped" /\ cas_AllUsername
  \/ LifecycleStep
  \/ epc \in {"stopped", "panicked"} /\ cart_Now
  \/ ResetStep
  \/ Before1stRun /\ rpc = "stopped" /\ Tick

SpecOrphan == Init /\ [][OrphanNext]_vars


\* invocations of the Traffic Reset Engine that overlap, over one user; the
\* clock stands until the checkpoint file is created and written
OverlapNext ==
  \/ \E in \in SchedulerInputs : Call_CreateUser("c1", in)
  \/ CreateUserStep("c1")
  \/ cart_Now
  \/ ResetStep
  \/ cart_Overlapping
  \/ checkpoint.exists /\ checkpoint.text # <<>> /\ Tick

SpecOverlap == Init /\ [][OverlapNext]_vars


\* users and their traffic are written in the first month, while the
\* checkpoint file is created; in a later month one run of each engine, in
\* any interleaving, with the clock standing and no request
IndependenceInputs ==
  {UserInput("a", 1, 0, Subscription("inactive", "month", Time(1, 0, 0), Time(3, 0, 0))),
   UserInput("b", 2, 0, Subscription("active", "month", Time(1, 0, 0), Time(2, 0, 0)))}

NoEngineYet ==
  /\ epc = "stopped" /\ runlog = <<>>
  /\ rpc = "stopped" /\ \A m \in Months : resetcount.runs[m] = 0

IndependenceNext ==
  \/ /\ YearMonth(Now) = 0
     /\ \E in \in IndependenceInputs : in.Username \notin DOMAIN users /\ Call_CreateUser("c1", in)
  \/ YearMonth(Now) = 0 /\ Call_UpdateUserTraffic("c1", "a", 1)
  \/ CreateUserStep("c1")
  \/ UpdateUserTrafficStep("c1")
  \/ YearMonth(Now) > 0 /\ runlog = <<>> /\ cas_AllUsername
  \/ LifecycleStep
  \/ cart_Now
  \/ ResetStep
  \/ pc["c1"] = "idle" /\ NoEngineYet /\ Tick

SpecIndependence == Init /\ [][IndependenceNext]_vars

----------------------------------------------------------------------------
(* Properties *)

LockLabels == {"CreateUser_Lock", "UpdateUserSubscription_Lock", "DeleteUser_Lock", "UpdateUserTraffic_Lock"}

\* p is inside the statement sequence of a mutating operation
Inside(p) == pc[p] \notin LockLabels \cup {"idle"}

\* the user that GetUser returns has the fields of the input user
SameFields(in, out) ==
  /\ out.Username = in.Username
  /\ out.ChatID = in.ChatID
  /\ out.Traffic = in.Traffic
  /\ out.Subscription.SubscriptionStatus = in.Subscription.SubscriptionStatus
  /\ out.Subscription.Duration = in.Subscription.Duration
  /\ TimeEqual(out.Subscription.StartSubscription, in.Subscription.StartSubscription)
  /\ TimeEqual(out.Subscription.EndSubscription, in.Subscription.EndSubscription)

\* C1: when no Store operation is inside its statements (every operation
\* issued so far has completed or not yet started), every subscription row
\* is referenced by a user row.
C1_OrphanFreedom == mu = NoProc => Orphans = {}

\* C2: when CreateUser returns, the subscription row it inserted exists if
\* and only if a user row referencing it exists, and a CreateUser that fails
\* leaves no new subscription row and the users table as it was.
C2_CreateUserAtomic ==
  [][\A p \in Clients :
       (pc[p] \in {"CreateUser_addSubscription", "CreateUser_insertUser"} /\ pc'[p] = "idle") =>
         LET id == arg[p].subscriptionID
         IN /\ (id \in DOMAIN subscriptions') <=> (\E u \in DOMAIN users' : users'[u].subscription_id = id)
            /\ ret'[p].err # "nil" => (users' = users /\ id \notin DOMAIN subscriptions')]_vars

\* C3: once two CreateUser calls with the same username have both returned,
\* one has succeeded and the other has failed on the uniqueness of the
\* username, and the one user row of that username has the fields of the
\* input of the call that succeeded.
C3_OneCreateUserSucceeds ==
  (/\ \A p \in Clients : ret[p].op = "CreateUser"
   /\ ret["c1"].user.Username = ret["c2"].user.Username) =>
    \E w, l \in Clients :
      /\ w # l
      /\ ret[w].err = "nil"
      /\ ret[l].err = "UNIQUE constraint failed: users.username"
      /\ selectUser(ret[w].user.Username).err = "nil"
      /\ SameFields(ret[w].user, selectUser(ret[w].user.Username).user)

\* C4: at most one goroutine is inside the statements of a mutating
\* operation, it is the holder of db.mu, and while db.mu is held every read
\* operation of an idle caller can still take its step.
C4_MutualExclusion ==
  /\ Cardinality({p \in Procs : Inside(p)}) <= 1
  /\ \A p \in Procs : Inside(p) <=> mu = p
  /\ mu # NoProc =>
       \A p \in Clients : pc[p] = "idle" =>
         /\ ENABLED User(p, "a")
         /\ ENABLED IsUserExists(p, "a")
         /\ ENABLED SubscriptionStatus(p, "a")
         /\ ENABLED AllUsername(p)

\* a read has completed while another goroutine was inside a mutation
C4_Witness ==
  \E p, q \in Clients :
    /\ Inside(q) /\ mu = q
    /\ pc[p] = "idle" /\ ret[p].op \in {"User", "IsUserExists", "SubscriptionStatus", "AllUsername"}
    /\ ret[p].locked

\* C5: a User call that directly follows a successful CreateUser of the
\* same username returns a user with the username, chatID, traffic and
\* subscription status, duration, startDate and endDate of the input.
C5_CreateGetRoundTrip ==
  [][\A p \in Clients :
       (/\ ret[p].op = "CreateUser" /\ ret[p].err = "nil"
        /\ ret'[p].op = "User" /\ ret'[p].username = ret[p].user.Username) =>
         /\ ret'[p].err = "nil"
         /\ SameFields(ret[p].user, ret'[p].user)]_vars

\* the engine run is over
RunOver == epc \in {"stopped", "panicked"}

\* the entries of the run's log
Entries == {<<i, k>> \in (DOMAIN runlog) \X (1..2) : k \in DOMAIN runlog[i]}
Entry(e) == runlog[e[1]][e[2]]

\* the subscription row that entry e tested is still stored
Stored(e) == Entry(e).sub.ID \in DOMAIN subscriptions
Row(e) == subscriptions[Entry(e).sub.ID]

\* C6: a run that evaluates a user as inactive with endDate after now
\* reactivates it, and when the persist returned no error the status of
\* that user's subscription is active after the run.
C6_Reactivation ==
  \A e \in Entries :
    (/\ Entry(e).kind = "reactivation"
     /\ Entry(e).sub.SubscriptionStatus = "inactive"
     /\ After(Entry(e).sub.EndSubscription, Entry(e).now)) =>
      /\ Entry(e).applied
      /\ (RunOver /\ Entry(e).err = "nil" /\ Stored(e)) => Row(e).subscription_status = "active"

\* C7: a run that evaluates a user as active with endDate before now
\* expires it, and when the persist returned no error the status of that
\* user's subscription is inactive and its endDate is the zero value after
\* the run.
C7_Expiry ==
  \A e \in Entries :
    (/\ Entry(e).kind = "expiry"
     /\ Entry(e).sub.SubscriptionStatus = "active"
     /\ Before(Entry(e).sub.EndSubscription, Entry(e).now)) =>
      /\ Entry(e).applied
      /\ (RunOver /\ Entry(e).err = "nil" /\ Stored(e)) =>
           /\ Row(e).subscription_status = "inactive"
           /\ ParseTime(Row(e).end_subscription) = ZeroTime

\* a finished run has expired a subscription that was active with its
\* endDate before now, and the row is still stored
C7_Witness ==
  /\ RunOver
  /\ \E e \in Entries :
       /\ Entry(e).kind = "expiry" /\ Entry(e).applied /\ Entry(e).err = "nil"
       /\ Entry(e).sub.SubscriptionStatus = "active"
       /\ Before(Entry(e).sub.EndSubscription, Entry(e).now)
       /\ Stored(e)

\* C8: an if statement evaluated on a subscription whose endDate equals now
\* applies no transition: an active subscription stays stored as active with
\* its endDate, an inactive one stays stored as inactive.
C8_Boundary ==
  \A e \in Entries :
    TimeEqual(Entry(e).sub.EndSubscription, Entry(e).now) =>
      /\ ~Entry(e).applied
      /\ (Stored(e) /\ Entry(e).kind = "expiry" /\ Entry(e).sub.SubscriptionStatus = "active") =>
           /\ Row(e).subscription_status = "active"
           /\ TimeEqual(ParseTime(Row(e).end_subscription), Entry(e).sub.EndSubscription)
      /\ (Stored(e) /\ Entry(e).kind = "reactivation" /\ Entry(e).sub.SubscriptionStatus = "inactive") =>
           Row(e).subscription_status = "inactive"

\* a finished run has evaluated an active and an inactive subscription at
\* their endDate and has left both alone
C8_Witness ==
  /\ RunOver
  /\ \E e \in Entries :
       /\ Entry(e).kind = "expiry" /\ Entry(e).sub.SubscriptionStatus = "active"
       /\ TimeEqual(Entry(e).sub.EndSubscription, Entry(e).now) /\ ~Entry(e).applied
       /\ Stored(e)
  /\ \E e \in Entries :
       /\ Entry(e).kind = "reactivation" /\ Entry(e).sub.SubscriptionStatus = "inactive"
       /\ TimeEqual(Entry(e).sub.EndSubscription, Entry(e).now) /\ ~Entry(e).applied
       /\ Stored(e)

\* C9: a run that is over has reached every username of its snapshot,
\* whether or not a fetch or a persist failed on the way.
C9_PartialFailureTolerance == RunOver => \A i \in DOMAIN usernames : i <= idx

\* C10: for each username of the snapshot the run applies at most one
\* transition, so issues at most one UpdateUserSubscription.
C10_OneTransitionPerUser ==
  \A i \in DOMAIN runlog : Cardinality({k \in DOMAIN runlog[i] : runlog[i][k].applied}) <= 1

\* p takes the step that leaves label
Leaves(p, label) == pc[p] = label /\ pc'[p] # label

\* the rows of table t other than key are the same in t2
OthersUnchanged(t, t2, key) ==
  /\ DOMAIN t2 \ {key} = DOMAIN t \ {key}
  /\ \A k \in DOMAIN t \ {key} : t2[k] = t[k]

\* C16: a DeleteUser(u) that returns nil has removed the User row u and
\* nothing else from users, has removed the Subscription row u referenced if
\* and only if no other User row references it, and has left every other
\* Subscription row as it was.
C16_DeleteUserRemovesBothRows ==
  [][\A p \in Procs :
       /\ Leaves(p, "DeleteUser_deleteUser") =>
            /\ arg[p].username \notin DOMAIN users'
            /\ OthersUnchanged(users, users', arg[p].username)
            /\ subscriptions' = subscriptions
       /\ Leaves(p, "DeleteUser_deleteSubscription") =>
            /\ ret'[p] = [op |-> "DeleteUser", err |-> "nil", username |-> arg[p].username]
            /\ arg[p].username \notin DOMAIN users'
            /\ users' = users
            /\ arg[p].subscriptionID \notin DOMAIN subscriptions' <=>
                 ~\E v \in DOMAIN users' : users'[v].subscription_id = arg[p].subscriptionID
            /\ OthersUnchanged(subscriptions, subscriptions', arg[p].subscriptionID)]_vars

\* a DeleteUser of an existing user has returned nil; the user and the
\* subscription it referenced are gone
C16_Witness ==
  \E p \in Procs :
    /\ ret[p] # NoRet /\ ret[p].op = "DeleteUser" /\ ret[p].err = "nil"
    /\ ret[p].username \notin DOMAIN users
    /\ seq > 0
    /\ subscriptions = EmptyTable

C19_UpdateUserSubscriptionNotFound ==
  [][\A p \in Procs :
       (Leaves(p, "UpdateUserSubscription_IsUserExists") /\ arg[p].username \notin DOMAIN users) =>
         /\ pc'[p] = "idle"
         /\ ret'[p] = [op |-> "UpdateUserSubscription", err |-> "not found", username |-> arg[p].username]
         /\ users' = users /\ subscriptions' = subscriptions]_vars

\* an UpdateUserSubscription on an absent username has returned not found
C19_Witness ==
  \E p \in Clients :
    /\ ret[p] # NoRet /\ ret[p].op = "UpdateUserSubscription" /\ ret[p].err = "not found"
    /\ ret[p].username \notin DOMAIN users

\* C20: an UpdateUserSubscription on an existing username u returns nil and
\* leaves u's subscription, read back, with the status, duration, startDate
\* and endDate it was given; the users table (u's username, chatID, traffic
\* and subscription id, and every other user) and every other Subscription
\* row are as before.
C20_UpdateUserSubscriptionReplaces ==
  [][\A p \in Procs :
       Leaves(p, "UpdateUserSubscription_Exec") =>
         LET u == arg[p].username
             given == arg[p].newSubscription
             id == users[u].subscription_id
         IN /\ ret'[p].err = "nil"
            /\ subscriptions'[id].subscription_status = given.SubscriptionStatus
            /\ subscriptions'[id].duration = given.Duration
            /\ TimeEqual(ParseTime(subscriptions'[id].start_subscription), given.StartSubscription)
            /\ TimeEqual(ParseTime(subscriptions'[id].end_subscription), given.EndSubscription)
            /\ users' = users
            /\ OthersUnchanged(subscriptions, subscriptions', id)]_vars

\* the invocation of checkAndResetTraffic has returned
ResetOver == rpc = "stopped" /\ resetrun.now # ZeroTime

\* the invocation read a checkpoint in the (year, month) of its now
SameMonth ==
  /\ resetrun.found.exists /\ resetrun.found.text # <<>> /\ ~resetrun.err
  /\ YearMonth(ParseRFC3339(resetrun.found.text)) = YearMonth(resetrun.now)

C13_CheckpointBootstrap ==
  resetrun.boot =>
    /\ resetrun.calls = <<>>
    /\ ~resetrun.reset => checkpoint = File(FormatRFC3339(resetrun.last))

\* the invocation read a checkpoint in another (year, month) than its now
OtherMonth ==
  /\ resetrun.found.exists /\ resetrun.found.text # <<>> /\ ~resetrun.err
  /\ YearMonth(ParseRFC3339(resetrun.found.text)) # YearMonth(resetrun.now)

C15_CheckpointFailureAborts ==
  (resetrun.err \/ resetrun.wrote = "failed") =>
    \A k \in DOMAIN resetrun.calls : resetrun.calls[k].err # "nil"

\* C11: across invocations and restarts the engine resets each user at
\* most once in the invocations of one calendar month, and when an
\* invocation that read a checkpoint of another month has returned with the
\* checkpoint written, every user of its snapshot has been reset exactly
\* once in that month.
C11_OncePerMonth ==
  /\ \A u \in Usernames, m \in Months : resetcount.users[u][m] <= 1
  /\ (ResetOver /\ OtherMonth /\ resetrun.wrote = "ok") =>
       \A k \in DOMAIN rusernames : resetcount.users[rusernames[k]][YearMonth(resetrun.now)] = 1

\* C17: orphan cleanup runs once at startup: when the process has started
\* (NewDatabase has returned) no Subscription row is left without a User
\* row referencing it, whatever earlier operations left behind.  (The code
\* has no separate cleanup operation that could follow a DeleteUser.)
C17_OrphanCleanupAtStartup == [][main => Orphans' = {}]_vars

\* C21: a CreateUser whose username is empty or only white space returns
\* "unsupported username" and adds no User row and no Subscription row.
C21_BlankUsernameRejected ==
  [][\A p \in Procs :
       (Leaves(p, "CreateUser_addSubscription") /\ arg[p].user.Username \in BlankUsernames) =>
         /\ pc'[p] = "idle"
         /\ ret'[p].err = "unsupported username"
         /\ users' = users /\ subscriptions' = subscriptions /\ seq' = seq]_vars

\* a CreateUser with a username of one space has been rejected
C21_Witness ==
  \E p \in Clients :
    /\ ret[p].op = "CreateUser" /\ ret[p].err = "unsupported username"
    /\ ret[p].user.Username = " "

\* C23: an UpdateUserTraffic(u, v) returns nil; when u exists its traffic
\* becomes v and nothing else changes, when u does not exist no row is
\* created or changed.
C23_UpdateUserTrafficSets ==
  [][\A p \in Procs :
       (Leaves(p, "UpdateUserTraffic_Exec") /\ arg[p].op = "UpdateUserTraffic") =>
         /\ ret'[p].err = "nil"
         /\ subscriptions' = subscriptions /\ seq' = seq
         /\ DOMAIN users' = DOMAIN users
         /\ \A u \in DOMAIN users :
              users'[u] = IF u = arg[p].username
                          THEN [users[u] EXCEPT !.traffic = arg[p].traffic]
                          ELSE users[u]]_vars

\* one UpdateUserTraffic has left an existing user with the value 2 it was
\* given, another on an absent username has returned nil
C23_Witness ==
  \E p, q \in Clients :
    /\ ret[p].op = "UpdateUserTraffic" /\ ret[p].err = "nil"
    /\ ret[p].username \in DOMAIN users /\ users[ret[p].username].traffic = 2
    /\ ret[q].op = "UpdateUserTraffic" /\ ret[q].err = "nil"
    /\ ret[q].username \notin DOMAIN users

\* C24: a ResetUserTraffic(u) returns what UpdateUserTraffic(u, 0) returns
\* and leaves the tables as updateUserTrafficSQL(u, 0) leaves them: an
\* existing u has traffic 0 and nothing else changes.
C24_ResetUserTrafficIsUpdateZero ==
  [][\A p \in Procs :
       (Leaves(p, "UpdateUserTraffic_Exec") /\ arg[p].op = "ResetUserTraffic") =>
         /\ ret'[p].err = "nil"
         /\ users' = updateUserTrafficSQL(arg[p].username, 0)
         /\ subscriptions' = subscriptions /\ seq' = seq
         /\ arg[p].username \in DOMAIN users => users'[arg[p].username].traffic = 0]_vars

\* a ResetUserTraffic has returned for a user that now has traffic 0 while
\* the other user has traffic 2
C24_Witness ==
  \E p \in Clients :
    /\ ret[p].op = "ResetUserTraffic" /\ ret[p].err = "nil"
    /\ ret[p].username \in DOMAIN users /\ users[ret[p].username].traffic = 0
    /\ \E v \in DOMAIN users : users[v].traffic = 2

\* C25: the stored traffic of a user decreases only in the statement of a
\* ResetUserTraffic on that user, which leaves it 0.
C25_TrafficMonotone ==
  [][\A u \in DOMAIN users \cap DOMAIN users' :
       users'[u].traffic < users[u].traffic =>
         /\ users'[u].traffic = 0
         /\ \E p \in Procs : /\ Leaves(p, "UpdateUserTraffic_Exec")
                              /\ arg[p].op = "ResetUserTraffic" /\ arg[p].username = u]_vars

\* C26: every stored traffic is at least 0.
C26_TrafficNonNegative == \A u \in DOMAIN users : users[u].traffic >= 0

\* C27: an AllUsername call returns nil and a list that holds every
\* username of the users table once and nothing else (the empty list when
\* the table is empty).
C27_AllUsernameComplete ==
  [][\A p \in Procs :
       (ret'[p] # ret[p] /\ ret'[p].op = "AllUsername") =>
         /\ ret'[p].err = "nil"
         /\ {ret'[p].usernames[i] : i \in DOMAIN ret'[p].usernames} = DOMAIN users
         /\ Len(ret'[p].usernames) = Cardinality(DOMAIN users)]_vars

\* one AllUsername returned the empty list, a later one both usernames
C27_Witness ==
  \E p, q \in Clients :
    /\ ret[p].op = "AllUsername" /\ ret[p].usernames = <<>>
    /\ ret[q].op = "AllUsername" /\ Len(ret[q].usernames) = 2
    /\ DOMAIN users = Usernames

\* C22: the Subscription row that CreateUser inserts for an input without
\* subscription values has status "inactive", duration "month", the
\* creation time as startDate and the zero time as endDate.
C22_CreateUserDefaults ==
  [][\A p \in Procs :
       (/\ Leaves(p, "CreateUser_addSubscription")
        /\ arg[p].user.Subscription = NoSubscription
        /\ arg[p].user.Username \notin BlankUsernames) =>
         /\ seq + 1 \in DOMAIN subscriptions'
         /\ subscriptions'[seq + 1].subscription_status = "inactive"
         /\ subscriptions'[seq + 1].duration = "month"
         /\ subscriptions'[seq + 1].start_subscription = FormatTime(Now)
         /\ subscriptions'[seq + 1].end_subscription = FormatTime(ZeroTime)]_vars


\* a job that is not running, so that cron can start it
Idle(run) ==
  IF run = "checkAndResetTraffic"
  THEN rpc = "stopped" /\ pc[Resetter] = "idle"
  ELSE epc \in {"stopped", "panicked"} /\ pc[Engine] = "idle"

\* the tasks whose registration failed, and those whose registration succeeded
Unregistered == {t \in tasks : ParseError(t.Schedule)}
Scheduling == {t \in tasks : ~ParseError(t.Schedule)}

\* C28: a registration that fails on a malformed cadence is not fatal: the
\* task is recorded but never fired, the construction goes on to the other
\* names and Start starts the run loop, and a task that is registered with
\* a good cadence is fired whenever the run loop is there and its job idle
C28_RegistrationFailureNonFatal ==
  /\ [](\A t \in Unregistered : t.Run \notin Scheduled)
  /\ [][\A t \in Unregistered : ~Begins(t.Run)]_vars
  /\ [](\A name \in TaskNames \ {t.Name : t \in tasks} :
          \A schedule \in Cadences(name) : ENABLED RegisterTask(name, schedule))
  /\ []({t.Name : t \in tasks} = TaskNames => ENABLED Start)
  /\ [][Start => cron'.running]_vars
  /\ [](\A t \in Scheduling : cron.running /\ Idle(t.Run) => ENABLED Fire(t.Run))

\* the reset task is registered with a malformed cadence and the lifecycle
\* task with its plan; the scheduler is started and the lifecycle job has
\* been fired on the user, the reset job never
C28_Witness ==
  /\ Task(resetTraffic, Malformed, "checkAndResetTraffic") \in tasks
  /\ Task(checkSubscriptions, "@daily", "checkAndUpdateSubscriptions") \in tasks
  /\ cron.running
  /\ epc = "expiry"
  /\ resetrun = NoRun

\* the steps that leave a job where it is
JobUntouched == UNCHANGED <<storeVars, mu, pc, arg, ret, engineVars, resetVars>>

\* a goroutine that waits for db.mu while another one holds it
Waiting(p) == pc[p] \in LockLabels /\ mu \notin {NoProc, p}

\* C29: a job begins only while the run loop is there, which is between
\* Start and Stop; Stop leaves a running job where it is, and a running
\* job needs no run loop for its steps: it can take its next step, or it
\* waits for db.mu, so it goes on to its end
C29_StartStop ==
  /\ [][\A run \in Jobs : Begins(run) => cron.running]_vars
  /\ [][Stop => ~cron'.running /\ JobUntouched]_vars
  /\ [](~cron.running /\ epc \notin {"stopped", "panicked"} => ENABLED LifecycleStep \/ Waiting(Engine))
  /\ [](~cron.running /\ rpc # "stopped" => ENABLED ResetStep \/ Waiting(Resetter))

\* the scheduler is stopped while the reset job is inside resetAllUserTraffic
\* and the lifecycle job inside its second if
C29_Witness ==
  /\ ~cron.running
  /\ tasks = Registered
  /\ rpc = "ResetUserTraffic"
  /\ epc = "expiry"

\* a request to a /users route that does not carry the bot token
Unauthorized(r) == r.route \in UserRoutes /\ r.authorization # "Bearer tok"

\* the middleware has just taken a request of p
Arrives(p) == http[p].stage \in {"idle", "done"} /\ http'[p] # http[p]

\* the Store as p can read or change it, and the Store operation of p
StoreOf(p) == <<storeVars, mu, pc[p], arg[p], ret[p]>>

Matches(e) ==
  \/ /\ Entry(e).kind = "reactivation"
     /\ Entry(e).sub.SubscriptionStatus = "inactive"
     /\ After(Entry(e).sub.EndSubscription, Entry(e).now)
  \/ /\ Entry(e).kind = "expiry"
     /\ Entry(e).sub.SubscriptionStatus = "active"
     /\ Before(Entry(e).sub.EndSubscription, Entry(e).now)

\* C31: an if statement of the run that is evaluated on a subscription its
\* rule does not match issues no UpdateUserSubscription, and the engine
\* executes the UPDATE only for the user it is at and only after an if
\* statement whose branch it took; so the rows of a user that matches
\* neither rule are not written by the run.
C31_PersistOnlyOnTransition ==
  /\ [](\A e \in Entries : ~Matches(e) => ~Entry(e).applied)
  /\ [][Leaves(Engine, "UpdateUserSubscription_Exec") =>
          /\ arg[Engine].username = usernames[idx]
          /\ \E k \in DOMAIN runlog[idx] : runlog[idx][k].applied /\ Matches(<<idx, k>>)]_vars

\* a finished run has evaluated both if statements on a subscription that
\* is inactive with its endDate not after now, and took neither branch
C31_Witness ==
  /\ RunOver
  /\ \E i \in DOMAIN runlog :
       /\ Len(runlog[i]) = 2
       /\ runlog[i][1].sub.SubscriptionStatus = "inactive"
       /\ ~After(runlog[i][1].sub.EndSubscription, runlog[i][1].now)
       /\ ~runlog[i][1].applied /\ ~runlog[i][2].applied
       /\ runlog[i][1].sub.ID \in DOMAIN subscriptions

\* the row the UPDATE of p is about to write
Target(p) == users[arg[p].username].subscription_id

\* C32: the persist of a transition keeps what UpdateUserSubscription wrote
\* last: the UPDATE the engine executes leaves the duration and the
\* startDate of the row as they are stored, and on a reactivation the
\* endDate too, also when a client's UpdateUserSubscription has completed
\* between the engine's fetch and this persist.
C32_NoLostUpdate ==
  [][(/\ Leaves(Engine, "UpdateUserSubscription_Exec")
      /\ arg[Engine].username \in DOMAIN users
      /\ Target(Engine) \in DOMAIN subscriptions) =>
       LET old == subscriptions[Target(Engine)]
           new == subscriptions'[Target(Engine)]
       IN /\ new.duration = old.duration
          /\ new.start_subscription = old.start_subscription
          /\ arg[Engine].newSubscription.SubscriptionStatus = "active" =>
               new.end_subscription = old.end_subscription]_vars

\* the stored status of every user is in line with its endDate at the
\* current time: none is inactive with endDate after now, none is active
\* with endDate before now
InLine ==
  \A u \in DOMAIN users :
    LET r == selectUser(u).user
    IN r # NilUser =>
         /\ ~(r.Subscription.SubscriptionStatus = "inactive" /\ After(r.Subscription.EndSubscription, Now))
         /\ ~(r.Subscription.SubscriptionStatus = "active" /\ Before(r.Subscription.EndSubscription, Now))

\* a run that found users has finished
RunDone == epc = "stopped" /\ runlog # <<>>

\* C33: at a fixed time and with nothing else writing, a finished run
\* leaves every user in line; from a state in line a run issues no
\* UpdateUserSubscription and changes no row; and no run reactivates a
\* subscription that is inactive with the zero endDate.
C33_RunIdempotent ==
  /\ [](RunDone => InLine)
  /\ [][runlog # <<>> /\ InLine => UNCHANGED <<storeVars, pc[Engine], arg[Engine]>>]_vars
  /\ [](\A e \in Entries :
          /\ Entry(e).sub.SubscriptionStatus = "inactive"
          /\ Entry(e).sub.EndSubscription = ZeroTime
          => ~Entry(e).applied)

\* a run has finished after one that expired a subscription: it evaluated
\* the subscription as inactive with the zero endDate and left it alone,
\* and every user is in line
C33_Witness ==
  /\ RunDone
  /\ InLine
  /\ \E e \in Entries :
       /\ Entry(e).kind = "reactivation"
       /\ Entry(e).sub.SubscriptionStatus = "inactive"
       /\ Entry(e).sub.EndSubscription = ZeroTime
       /\ ~Entry(e).applied

\* the stored subscription of u is active with its endDate before now
Overdue(u) ==
  /\ selectUser(u).user # NilUser
  /\ selectUser(u).user.Subscription.SubscriptionStatus = "active"
  /\ Before(selectUser(u).user.Subscription.EndSubscription, Now)

\* the stored subscription of u is inactive with the zero endDate
Lapsed(u) ==
  /\ selectUser(u).user # NilUser
  /\ selectUser(u).user.Subscription.SubscriptionStatus = "inactive"
  /\ selectUser(u).user.Subscription.EndSubscription = ZeroTime

\* C34: while the daily job keeps firing and the Store calls of the engine
\* get through, a user that is active with its endDate before now, and
\* that no request updates or deletes, is eventually inactive with the
\* zero endDate.
C34_ExpiryLiveness == Overdue("b") ~> Lapsed("b")

\* user b was overdue, a run has expired it and it is stored as lapsed
C34_Witness ==
  /\ Lapsed("b")
  /\ \E e \in Entries :
       /\ Entry(e).kind = "expiry" /\ Entry(e).applied /\ Entry(e).err = "nil"
       /\ usernames[e[1]] = "b"

\* how far a goroutine is from the return of its Store call
CallRank(p) ==
  CASE pc[p] = "idle" -> 0
    [] pc[p] \in LockLabels -> 3
    [] pc[p] = "UpdateUserSubscription_IsUserExists" -> 2
    [] OTHER -> 1

\* a bound on the statements a run of checkAndUpdateSubscriptions has left:
\* the usernames of the snapshot it has not reached, and the statements
\* left for the one it is at
LifecycleRank ==
  IF RunOver THEN 0
  ELSE 1 + 16 * (Len(usernames) - idx) + CallRank(Engine) +
       CASE epc = "fetch" -> 16
         [] epc = "reactivation" -> 12
         [] epc = "reactivated" -> 8
         [] epc = "expiry" -> 4
         [] OTHER -> 0

\* the same for a run of checkAndResetTraffic
ResetRank ==
  CASE rpc = "stopped" -> 0
    [] rpc = "ulrt_Fprintf" -> 1
    [] rpc = "UpdateLastResetTimeInFile" -> 2
    [] rpc = "range" -> 8 * (Len(rusernames) - ridx + 1) + 7
    [] rpc = "ResetUserTraffic" -> 8 * (Len(rusernames) - ridx + 1) + CallRank(Resetter)
    [] rpc = "resetAllUserTraffic" -> 8 * Cardinality(Usernames) + 8
    [] rpc = "lrt_WriteString" -> 8 * Cardinality(Usernames) + 9
    [] OTHER -> 8 * Cardinality(Usernames) + 10

LifecycleMoves == <<epc, idx, pc[Engine]>>' # <<epc, idx, pc[Engine]>>
ResetMoves == <<rpc, ridx, pc[Resetter]>>' # <<rpc, ridx, pc[Resetter]>>

\* C35: a run works on the snapshot it took: the snapshot does not change
\* while the run is on, every Store call of the run is for the username the
\* range is at, and every statement of the run brings it nearer to its end
\* (the range index only grows, no username is taken up again), whatever
\* the requests create or delete meanwhile; and when AllUsername fails the
\* run goes on with an empty snapshot and calls nothing for any user.
C35_RunsTerminate ==
  /\ [][~RunOver /\ LifecycleMoves => usernames' = usernames /\ LifecycleRank' < LifecycleRank]_vars
  /\ [][rpc # "stopped" /\ ResetMoves =>
          /\ ResetRank' < ResetRank
          /\ rpc \in {"range", "ResetUserTraffic"} => rusernames' = rusernames]_vars
  /\ [](/\ LifecycleRank \in 0..(16 * Cardinality(Usernames) + 4)
        /\ ResetRank \in 0..(8 * Cardinality(Usernames) + 10))
  /\ [](/\ pc[Engine] # "idle" => idx \in DOMAIN usernames /\ arg[Engine].username = usernames[idx]
        /\ pc[Resetter] # "idle" => ridx \in DOMAIN rusernames /\ arg[Resetter].username = rusernames[ridx])
  /\ [][cas_AllUsername_Error => RunOver' /\ usernames' = <<>> /\ UNCHANGED <<storeVars, pc, arg>>]_vars
  /\ [][raut_AllUsername_Error => rusernames' = <<>> /\ UNCHANGED <<storeVars, pc, arg>>]_vars

\* the engine is inside the UpdateUserSubscription for the user of its
\* snapshot while a request has deleted that user
C35_Witness ==
  /\ pc[Engine] = "UpdateUserSubscription_IsUserExists"
  /\ usernames = <<"a">>
  /\ "a" \notin DOMAIN users

\* C36: the goroutine that holds db.mu is inside the statements of its
\* operation, never waiting for the lock and never returned; so whenever
\* a goroutine waits at Lock, either the lock is free and it can take it,
\* or the holder can take its next statement; and a waiting call gets in.
C36_DeadlockFree ==
  /\ [](\A p \in Clients : mu = p => Inside(p))
  /\ [](\A p \in Clients :
          pc[p] \in LockLabels =>
            \/ mu = NoProc /\ ENABLED StoreStep(p)
            \/ \E q \in Clients \ {p} : mu = q /\ ENABLED StoreStep(q))
  /\ \A p \in Clients : (pc[p] \in LockLabels) ~> Inside(p)

\* c1 waits for the lock in its ResetUserTraffic while c2 holds it inside
\* an UpdateUserSubscription that is about to return "not found"
C36_Witness ==
  /\ pc["c1"] = "UpdateUserTraffic_Lock"
  /\ arg["c1"].op = "ResetUserTraffic"
  /\ pc["c2"] = "UpdateUserSubscription_IsUserExists"
  /\ mu = "c2"
  /\ "a" \notin DOMAIN users

\* C37: in every state, also between the statements of a CreateUser or a
\* DeleteUser, every row of users refers to a row of subscriptions that is
\* there, and no two rows of users refer to the same one; so a User or
\* SubscriptionStatus call for a username that is in users finds the user.
C37_UserHasSubscription ==
  /\ [](/\ \A u \in DOMAIN users : users[u].subscription_id \in DOMAIN subscriptions
        /\ \A u, v \in DOMAIN users :
             users[u].subscription_id = users[v].subscription_id => u = v)
  /\ [][\A p \in Clients :
          (/\ ret'[p] # ret[p]
           /\ ret'[p].op \in {"User", "SubscriptionStatus"}
           /\ ret'[p].username \in DOMAIN users) => ret'[p].err = "nil"]_vars

\* both users are stored, and c1 has read user b without an error while c2
\* was between the statements of its DeleteUser
C37_Witness ==
  /\ DOMAIN users = {"a", "b"}
  /\ pc["c2"] = "DeleteUser_deleteUser"
  /\ ret["c1"].op = "User" /\ ret["c1"].locked /\ ret["c1"].err = "nil"

\* the row an operation in flight has inserted and not yet referenced, or
\* has unreferenced and not yet deleted
InFlight ==
  {arg[q].subscriptionID : q \in {r \in Procs : pc[r] \in {"CreateUser_insertUser", "DeleteUser_deleteSubscription"}}}

Orphaned == Orphans \ InFlight

Readable == checkpoint.exists /\ checkpoint.text # <<>>

\* the (year, month) the checkpoint file holds
CheckpointMonth == YearMonth(ParseRFC3339(checkpoint.text))

\* C39: no write replaces the time in the checkpoint file by a time of an
\* earlier (year, month), whatever invocations of the Traffic Reset Engine
\* run and overlap while the clock goes forward: neither a write made in one
\* step, nor UpdateLastResetTimeInFile, whose os.Create empties the file
\* before Fprintf writes the time it was called with
C39_CheckpointForward ==
  [][/\ (Readable /\ Readable') => CheckpointMonth' >= CheckpointMonth
     /\ (Readable /\ rpc # "ulrt_Fprintf" /\ rpc' = "ulrt_Fprintf") =>
          YearMonth(newResetTime(rnow)) >= CheckpointMonth]_vars

\* the record Database.User returns for username u from the rows CreateUser wrote
Created(u) ==
  LET in == CHOOSE x \in IndependenceInputs : x.Username = u
      row == addSubscriptionRow(in.Subscription)
  IN [Username |-> u, Traffic |-> users[u].traffic, ChatID |-> in.ChatID,
      Subscription |-> [ID |-> users[u].subscription_id,
                        SubscriptionStatus |-> row.subscription_status,
                        Duration |-> row.duration,
                        StartSubscription |-> ParseTime(row.start_subscription),
                        EndSubscription |-> ParseTime(row.end_subscription)]]

\* the subscription row of u after a Lifecycle Engine run that ran alone
AloneLifecycle(u) ==
  LET r0 == Created(u)
      r1 == IF reactivates(r0) THEN reactivate(r0) ELSE r0
      r2 == IF expires(r1) THEN expire(r1) ELSE r1
  IN addSubscriptionRow(SubscriptionOf(r2))

\* both runs have returned: the Lifecycle Engine went through every user and
\* the Traffic Reset Engine reset and wrote the checkpoint
BothDone ==
  /\ epc = "stopped" /\ runlog # <<>> /\ Len(usernames) = Cardinality(DOMAIN users)
  /\ rpc = "stopped" /\ resetrun.reset /\ resetrun.wrote = "ok"

\* C40: no step of a Lifecycle Engine run writes users or the checkpoint or
\* adds or removes a subscription row; no step of a Traffic Reset Engine run
\* writes subscriptions, or anything of a user row but its traffic; and when
\* one run of each has returned, in whatever interleaving they ran, every
\* subscription row is the one the Lifecycle Engine alone leaves, every
\* traffic is 0 and the checkpoint is the one the Reset Engine alone writes
C40_EngineIndependence ==
  /\ [][(cas_AllUsername \/ LifecycleStep) =>
          /\ users' = users /\ checkpoint' = checkpoint
          /\ DOMAIN subscriptions' = DOMAIN subscriptions]_vars
  /\ [][(cart_Now \/ ResetStep) =>
          /\ subscriptions' = subscriptions
          /\ DOMAIN users' = DOMAIN users
          /\ \A u \in DOMAIN users : [users'[u] EXCEPT !.traffic = 0] = [users[u] EXCEPT !.traffic = 0]]_vars
  /\ [](BothDone =>
          /\ \A u \in DOMAIN users :
                /\ subscriptions[users[u].subscription_id] = AloneLifecycle(u)
                /\ users[u].traffic = 0
          /\ checkpoint = File(FormatRFC3339(newResetTime(Now))))

\* the two runs overlap, neither has returned, and each has written: the
\* Lifecycle Engine a subscription and the Traffic Reset Engine a traffic
C40_Witness ==
  /\ epc \notin {"stopped", "panicked"}
  /\ rpc \notin {"stopped", "LastResetTimeFromFile", "lrt_WriteString"}
  /\ DOMAIN users = {"a", "b"}
  /\ \E e \in Entries : Entry(e).applied /\ Entry(e).err = "nil"
  /\ \E i \in 1..Len(resetrun.calls) : resetrun.calls[i].err = "nil"

====
